---- MODULE Spec2Model ----
(***************************************************************************)
(* A model of the oneseismic-api attribute engine and of the response      *)
(* cache in front of it.                                                    *)
(*                                                                          *)
(*  - GetAttributes (internal/core/core.go): the offsets pass, the horizon  *)
(*    fetch pass (fetchHorizon) and the attribute pass                      *)
(*    (calculateAttributes), with one process per goroutine, the guard      *)
(*    semaphore and the buffered result channels.                           *)
(*  - The chunking loops of both passes as pure functions of the surface    *)
(*    shape.                                                                *)
(*  - The slice / fence / attributes handlers of the HTTP layer with the    *)
(*    response cache.                                                       *)
(***************************************************************************)
EXTENDS Integers, Sequences, FiniteSets, TLC

(***************************************************************************)
(* Bounds of the model.                                                     *)
(***************************************************************************)
\* surfaces of the full GetAttributes pipeline hold at most MaxCells cells
MaxCells == 4
\* fetchHorizon exercised on its own: surfaces of up to MaxRows x MaxCols
MaxRows == 4
MaxCols == 3
\* surfaces with arbitrary fill / out-of-range cells hold at most MaxFillCells
MaxFillCells == 2
\* number of requested attributes in the fill specification
MaxAttrs == 2
\* above and below, in samples, in the fill specification
MaxShift == 1
\* the chunking loops are evaluated for every hsize up to MaxHsize
MaxHsize == 70
\* and for every shape up to MaxPartRows x MaxPartCols
MaxPartRows == 9
MaxPartCols == 9
\* the requests an endpoint is asked: identifiers 1 .. MaxIds
MaxIds == 1
\* the largest capacity of the response cache, in units of entry size
MaxCacheSize == 1
\* the largest number of samples of the vertical axis of the cube
MaxSamples == 4
\* the largest number of points of a fence
MaxPoints == 2
\* the largest line number of a slice request
MaxLineno == 17
\* the largest number of bounds of a slice request
MaxBounds == 2
\* the largest number of workers of one pass, and of names of one request
MaxWorkers == 2
MaxNames == 2
\* the largest number of samples of a window
MaxWindow == 4
\* the number of samples of a trace below two surfaces
MaxTrace == 3

(***************************************************************************)
(* Program constants.                                                       *)
(***************************************************************************)
\* core.go:761  maxConcurrency := 32
maxConcurrency == 32
\* the sentinel of the request (RegularSurface.FillValue); any float
FillValue == -999
\* a surface value different from the sentinel
PopValue == 20

\* a Go error value: nil, or the error of the C call of one worker, which
\* names the pass and the first cell of the worker's chunk
NoError == <<>>
HorizonError(from) == <<"horizon", from>>
AttributeError(from) == <<"attribute", from>>
\* capi.cpp:352  "No data to iterate over"
NoDataError(from) == <<"nodata", from>>

\* core.go:527 and core.go:520
max(a, b) == IF a > b THEN a ELSE b
min(a, b) == IF a < b THEN a ELSE b

\* math.Ceil(float64(a) / float64(b)) for non-negative a and positive b
CeilDiv(a, b) == (a + b - 1) \div b

(***************************************************************************)
(* The chunking of both passes (core.go:689-729 and core.go:761-801).       *)
(***************************************************************************)
\* mutant: the pool is as wide as the surface has rows
maxConcurrentGoroutines_nrows(nr) == max(nr, 1)

\* mutant: the lower limit of one goroutine is missing
maxConcurrentGoroutines_nomin(nr) == nr \div 2

\* core.go:689  max number of goroutines running at the same time
maxConcurrentGoroutines(nr) == max(nr \div 2, 1)

\* core.go:695  the size of the data processed in one goroutine
chunkSize(nr) == max(nr, 1)

\* core.go:700  capacity of fetchHorizon's result channel
fetchErrsCap(nr, hs) == hs \div chunkSize(nr) + 1

\* core.go:727-728  the loop variables after one iteration of fetchHorizon
fetchAdvance(f, t, cs, hs) == [from |-> f + cs, to |-> min(t + cs, hs)]

\* mutant: the quotient is rounded down instead of up
windowsPerRoutine_floor(hs) == max(hs \div maxConcurrency, 1)

\* core.go:762
windowsPerRoutine(hs) == CeilDiv(hs, maxConcurrency)

\* mutant: the last chunk is not cut to the cells that remain
attrChunk_noclip(f, rem, wpr) == [from |-> f, to |-> f + wpr]

\* core.go:772-773  the chunk started by one iteration of calculateAttributes
attrChunk(f, rem, wpr) == [from |-> f, to |-> f + min(wpr, rem)]

\* mutant: the next chunk starts one cell late
attrAdvance_skip(f, rem, wpr) ==
    [from |-> f + min(wpr, rem) + 1, remaining |-> rem - min(wpr, rem)]

\* core.go:799-800  the loop variables after that iteration
attrAdvance(f, rem, wpr) == [from |-> f + min(wpr, rem), remaining |-> rem - min(wpr, rem)]

\* core.go:703-729  the (from, to) pairs fetchHorizon hands to its workers
RECURSIVE fetchChunksFrom(_, _, _, _)
fetchChunksFrom(f, t, cs, hs) ==
    IF f < hs
    THEN <<[from |-> f, to |-> t]>>
         \o fetchChunksFrom(fetchAdvance(f, t, cs, hs).from,
                            fetchAdvance(f, t, cs, hs).to, cs, hs)
    ELSE <<>>

fetchChunks(nr, nc) ==
    fetchChunksFrom(0, 0 + chunkSize(nr), chunkSize(nr), nr * nc)

\* core.go:766-801  the (from, to) pairs calculateAttributes hands to its workers
RECURSIVE attrChunksFrom(_, _, _)
attrChunksFrom(f, rem, wpr) ==
    IF rem > 0
    THEN <<attrChunk(f, rem, wpr)>>
         \o attrChunksFrom(attrAdvance(f, rem, wpr).from,
                           attrAdvance(f, rem, wpr).remaining, wpr)
    ELSE <<>>

attrChunks(hs) == attrChunksFrom(0, hs, windowsPerRoutine(hs))

(***************************************************************************)
(* Surfaces and the offsets of the horizon buffer.                          *)
(***************************************************************************)
\* core.go:301-326  the flattened surface, every cell but the fill cells shifted
toCdata(vals, shift) ==
    [k \in DOMAIN vals |->
        IF vals[k] = FillValue THEN vals[k] ELSE vals[k] + shift]

\* A cell holds samples iff none of the three surfaces marks it as fill and
\* its horizontal position lies inside the cube.
populated(ref, top, bottom, inr, k) ==
    /\ ref[k] # FillValue
    /\ top[k] # FillValue
    /\ bottom[k] # FillValue
    /\ inr[k]

\* number of samples of cell k: the vertical window for a populated cell
cellSamples(ref, top, bottom, inr, k) ==
    IF populated(ref, top, bottom, inr, k) THEN bottom[k] - top[k] + 1 ELSE 0

\* horizon_buffer_offsets: the prefix sums of the cells' sample counts
RECURSIVE offsetAt(_, _, _, _, _)
offsetAt(ref, top, bottom, inr, k) ==
    IF k = 0 THEN 0
    ELSE offsetAt(ref, top, bottom, inr, k - 1)
         + cellSamples(ref, top, bottom, inr, k - 1)

horizon_buffer_offsets(ref, top, bottom, inr, hs) ==
    [k \in 0 .. hs |-> offsetAt(ref, top, bottom, inr, k)]

(***************************************************************************)
(* State.                                                                   *)
(***************************************************************************)
VARIABLES
    entry,          \* the function under execution: GetAttributes, or one of its parts
    nrows, ncols,   \* shape of the primary surface
    Values,         \* RegularSurface.Values, flattened row-major: cell -> value
    inRange,        \* cell -> whether its horizontal position is inside the cube
    above, below,   \* the vertical window, in samples
    nAttributes,    \* len(cAttributes)
    pc,             \* position of the orchestrating goroutine
    dataOffset,     \* offsets of the horizon buffer, 0 .. hsize
    horizonBufferSize,
    from, to,       \* loop variables of the pass that is spawning
    remaining,
    nRoutines,
    guard,          \* number of elements in fetchHorizon's guard channel
    herrs,          \* fetchHorizon's errs channel
    aerrs,          \* calculateAttributes's errs channel
    hw,             \* the goroutines started by fetchHorizon, in start order
    aw,             \* the goroutines started by calculateAttributes
    joined,         \* the i of the loop that receives the results
    computeErrors,
    hcount,         \* cell -> how often a horizon worker filled its region
    acount,         \* cell -> how often an attribute worker wrote its outputs
    buffer,         \* calculateAttributes's buffer: attribute -> cell -> content
    fetchRet,       \* what fetchHorizon returned
    ret,            \* what GetAttributes returned
    chunks,         \* result of the chunking functions evaluated on their own
    cacheSize,      \* capacity of Endpoint.Cache
    cache,          \* entries of Endpoint.Cache, the most recently used first
    reqs,           \* handler goroutine -> the request it serves
    Secondary,      \* values of the secondary surface, cell -> value
    input,          \* arguments of the function examined on its own
    result          \* what the function examined on its own returned

gaVars == <<entry, nrows, ncols, Values, inRange, above, below, nAttributes,
            pc, dataOffset, horizonBufferSize, from, to, remaining, nRoutines,
            guard, herrs, aerrs, hw, aw, joined, computeErrors, hcount, acount,
            buffer, fetchRet, ret>>

cacheVars == <<cacheSize, cache, reqs>>

fnVars == <<Secondary, input, result>>

vars == <<gaVars, chunks, cacheVars, fnVars>>

hsize == nrows * ncols
Cells == 0 .. hsize - 1

Running == [status |-> "running", err |-> NoError, out |-> <<>>]

\* the state of the engine before a request is picked
EngineIdle ==
    /\ pc = "start"
    /\ dataOffset = <<>>
    /\ horizonBufferSize = 0
    /\ from = 0 /\ to = 0 /\ remaining = 0 /\ nRoutines = 0
    /\ guard = 0
    /\ herrs = <<>> /\ aerrs = <<>>
    /\ hw = <<>> /\ aw = <<>>
    /\ joined = 0
    /\ computeErrors = <<>>
    /\ hcount = [k \in Cells |-> 0]
    /\ acount = [k \in Cells |-> 0]
    /\ buffer = [a \in 1 .. nAttributes |-> [k \in Cells |-> "zero"]]
    /\ fetchRet = Running
    /\ ret = Running

\* the goroutines in which the HTTP server runs the handlers
Handlers == {"h1", "h2"}

\* nil: a value that was not produced
Nil == <<>>

NoResponse == [status |-> "none", source |-> "none", metadata |-> Nil, data |-> Nil]

\* a handler goroutine that serves no request
IdleRequest ==
    [kind |-> "none", id |-> 0, window |-> <<0, 0, 0>>, pc |-> "idle",
     conn |-> Nil, key |-> Nil, hit |-> FALSE, handle |-> "none",
     metadata |-> Nil, data |-> Nil, resp |-> NoResponse]

\* no cache and no request: the state of the server part while the engine
\* is examined on its own
CacheIdle ==
    /\ cacheSize = 0
    /\ cache = <<>>
    /\ reqs = [h \in Handlers |-> IdleRequest]

\* no function is examined on its own, and there is no secondary surface
FnIdle ==
    /\ Secondary = <<>>
    /\ input = <<>>
    /\ result = <<>>

(***************************************************************************)
(* GetAttributes: core.go:554-668.                                          *)
(***************************************************************************)
cPrimarySurface == toCdata(Values, 0)
cTopSurface == toCdata(Values, 0 - above)
cBottomSurface == toCdata(Values, below)

\* mutant: an empty horizon gets an empty buffer
horizonBufferBytes_empty(total) == total * 4

\* core.go:637-641  the size of the horizon buffer in bytes; an empty array
\* cannot be referenced, so that an empty horizon gets one element
horizonBufferBytes(total) == IF total * 4 = 0 THEN 1 ELSE total * 4

\* &buffer[0] of a Go slice without elements panics
indexOutOfRange(len) == len = 0

\* core.go:580-655  surfaces, offsets and the set-up of fetchHorizon
GetAttributes ==
    /\ pc = "start"
    /\ entry \in {"GetAttributes", "fetchHorizon"}
    /\ dataOffset' = horizon_buffer_offsets(cPrimarySurface, cTopSurface,
                                            cBottomSurface, inRange, hsize)
    /\ horizonBufferSize' = horizonBufferBytes(dataOffset'[hsize])
    /\ from' = 0
    /\ to' = 0 + chunkSize(nrows)
    /\ nRoutines' = 0
    /\ pc' = "fetch_loop"
    /\ UNCHANGED <<entry, nrows, ncols, Values, inRange, above, below,
                   nAttributes, remaining, guard, herrs, aerrs, hw, aw, joined,
                   computeErrors, hcount, acount, buffer, fetchRet, ret, chunks,
                   cacheVars, fnVars>>

\* core.go:703-729  one iteration: take a guard slot and start a worker
FetchSpawn ==
    /\ pc = "fetch_loop"
    /\ from < hsize
    /\ guard < maxConcurrentGoroutines(nrows)
    /\ guard' = guard + 1
    /\ hw' = Append(hw, [from |-> from, to |-> to, pc |-> "call", err |-> NoError])
    /\ nRoutines' = nRoutines + 1
    /\ from' = fetchAdvance(from, to, chunkSize(nrows), hsize).from
    /\ to' = fetchAdvance(from, to, chunkSize(nrows), hsize).to
    /\ UNCHANGED <<entry, nrows, ncols, Values, inRange, above, below,
                   nAttributes, pc, dataOffset, horizonBufferSize, remaining,
                   herrs, aerrs, aw, joined, computeErrors, hcount, acount,
                   buffer, fetchRet, ret, chunks, cacheVars, fnVars>>

\* core.go:703,731-733  the loop ends
FetchSpawnDone ==
    /\ pc = "fetch_loop"
    /\ ~(from < hsize)
    /\ pc' = "fetch_join"
    /\ joined' = 0
    /\ computeErrors' = <<>>
    /\ UNCHANGED <<entry, nrows, ncols, Values, inRange, above, below,
                   nAttributes, dataOffset, horizonBufferSize, from, to,
                   remaining, nRoutines, guard, herrs, aerrs, hw, aw, hcount,
                   acount, buffer, fetchRet, ret, chunks, cacheVars, fnVars>>

\* cells of [f, t) that exist
chunkCells(f, t) == {k \in Cells : f <= k /\ k < t}

\* core.go:709-720  C.horizon returns: the chunk's regions are filled, or an
\* error; taking the address of the first element of an empty buffer ends
\* the program instead
HorizonCall(w) ==
    /\ w \in DOMAIN hw
    /\ hw[w].pc = "call"
    /\ IF indexOutOfRange(horizonBufferSize)
       THEN /\ hw' = [hw EXCEPT ![w].pc = "panic"]
            /\ pc' = "done"
            /\ ret' = [status |-> "panic",
                       err |-> <<"index out of range", hw[w].from>>,
                       out |-> <<>>]
            /\ hcount' = hcount
       ELSE /\ \E ok \in BOOLEAN :
                  IF ok
                  THEN /\ hcount' = [k \in Cells |->
                                        IF k \in chunkCells(hw[w].from, hw[w].to)
                                        THEN hcount[k] + 1 ELSE hcount[k]]
                       /\ hw' = [hw EXCEPT ![w].pc = "post", ![w].err = NoError]
                  ELSE /\ hcount' = hcount
                       /\ hw' = [hw EXCEPT ![w].pc = "post",
                                           ![w].err = HorizonError(hw[w].from)]
            /\ UNCHANGED <<pc, ret>>
    /\ UNCHANGED <<entry, nrows, ncols, Values, inRange, above, below,
                   nAttributes, dataOffset, horizonBufferSize, from, to,
                   remaining, nRoutines, guard, herrs, aerrs, aw, joined,
                   computeErrors, acount, buffer, fetchRet, chunks,
                   cacheVars, fnVars>>

\* core.go:721  errs <- toError(cerr, cCtx)
HorizonPost(w) ==
    /\ w \in DOMAIN hw
    /\ hw[w].pc = "post"
    /\ Len(herrs) < fetchErrsCap(nrows, hsize)
    /\ herrs' = Append(herrs, hw[w].err)
    /\ hw' = [hw EXCEPT ![w].pc = "release"]
    /\ UNCHANGED <<entry, nrows, ncols, Values, inRange, above, below,
                   nAttributes, pc, dataOffset, horizonBufferSize, from, to,
                   remaining, nRoutines, guard, aerrs, aw, joined,
                   computeErrors, hcount, acount, buffer, fetchRet, ret, chunks,
                   cacheVars, fnVars>>

\* core.go:722  <-guard
HorizonRelease(w) ==
    /\ w \in DOMAIN hw
    /\ hw[w].pc = "release"
    /\ guard > 0
    /\ guard' = guard - 1
    /\ hw' = [hw EXCEPT ![w].pc = "exit"]
    /\ UNCHANGED <<entry, nrows, ncols, Values, inRange, above, below,
                   nAttributes, pc, dataOffset, horizonBufferSize, from, to,
                   remaining, nRoutines, herrs, aerrs, aw, joined,
                   computeErrors, hcount, acount, buffer, fetchRet, ret, chunks,
                   cacheVars, fnVars>>

\* mutant: the receiving loop stops at the first error
joinPending_untilError(i, n, errors) == i < n /\ Len(errors) = 0

\* core.go:733 and core.go:805  the receiving loop runs while i < nRoutines
joinPending(i, n, errors) == i < n

\* core.go:733-738  one result is received
FetchRecv ==
    /\ pc = "fetch_join"
    /\ joinPending(joined, nRoutines, computeErrors)
    /\ Len(herrs) > 0
    /\ herrs' = Tail(herrs)
    /\ computeErrors' = IF Head(herrs) # NoError
                        THEN Append(computeErrors, Head(herrs))
                        ELSE computeErrors
    /\ joined' = joined + 1
    /\ UNCHANGED <<entry, nrows, ncols, Values, inRange, above, below,
                   nAttributes, pc, dataOffset, horizonBufferSize, from, to,
                   remaining, nRoutines, guard, aerrs, hw, aw, hcount, acount,
                   buffer, fetchRet, ret, chunks, cacheVars, fnVars>>

\* mutant: the buffer is returned together with the error
joinResult_partial(errors, out) ==
    IF Len(errors) > 0
    THEN [status |-> "error", err |-> errors[1], out |-> out]
    ELSE [status |-> "ok", err |-> NoError, out |-> out]

\* mutant: the last error received is returned
joinResult_lastError(errors, out) ==
    IF Len(errors) > 0
    THEN [status |-> "error", err |-> errors[Len(errors)], out |-> <<>>]
    ELSE [status |-> "ok", err |-> NoError, out |-> out]

\* core.go:740-743 and 812-821  what a pass returns after the join
joinResult(errors, out) ==
    IF Len(errors) > 0
    THEN [status |-> "error", err |-> errors[1], out |-> <<>>]
    ELSE [status |-> "ok", err |-> NoError, out |-> out]

\* core.go:740-743, 653-655, 757-768  fetchHorizon returns; on an error
\* GetAttributes returns it, otherwise calculateAttributes is set up
FetchReturn ==
    /\ pc = "fetch_join"
    /\ ~joinPending(joined, nRoutines, computeErrors)
    /\ fetchRet' = joinResult(computeErrors, <<"horizon">>)
    /\ IF fetchRet'.status = "error"
       THEN /\ pc' = "done"
            /\ ret' = [status |-> "error", err |-> fetchRet'.err, out |-> <<>>]
            /\ UNCHANGED <<from, remaining, nRoutines>>
       ELSE IF entry = "fetchHorizon"
       THEN /\ pc' = "done"
            /\ UNCHANGED <<ret, from, remaining, nRoutines>>
       ELSE /\ pc' = "attr_loop"
            /\ from' = 0
            /\ remaining' = hsize
            /\ nRoutines' = 0
            /\ UNCHANGED ret
    /\ UNCHANGED <<entry, nrows, ncols, Values, inRange, above, below,
                   nAttributes, dataOffset, horizonBufferSize, to, guard, herrs,
                   aerrs, hw, aw, joined, computeErrors, hcount, acount, buffer,
                   chunks, cacheVars, fnVars>>

(***************************************************************************)
(* calculateAttributes: core.go:746-822.                                    *)
(***************************************************************************)
\* what the attribute kernels leave in the output of cell k: the fill value
\* for a cell without samples, the reduction of its window otherwise
cellOutput(offsets, k) ==
    IF offsets[k + 1] - offsets[k] = 0 THEN "fill" ELSE "value"

\* cppapi::attributes over the cells [f, t): every attribute map gets the
\* output of every cell of the range
cppapi_attributes(buf, offsets, f, t) ==
    [a \in DOMAIN buf |->
        [k \in DOMAIN buf[a] |->
            IF f <= k /\ k < t THEN cellOutput(offsets, k) ELSE buf[a][k]]]

\* capi.cpp:352  the range check of the C function attribute
noDataToIterateOver(f, t) == f >= t

\* core.go:769-801  one iteration: start a worker for the next chunk
AttrSpawn ==
    /\ pc = "attr_loop"
    /\ remaining > 0
    /\ nRoutines' = nRoutines + 1
    /\ aw' = Append(aw, [from |-> attrChunk(from, remaining, windowsPerRoutine(hsize)).from,
                         to |-> attrChunk(from, remaining, windowsPerRoutine(hsize)).to,
                         pc |-> "call", err |-> NoError])
    /\ from' = attrAdvance(from, remaining, windowsPerRoutine(hsize)).from
    /\ remaining' = attrAdvance(from, remaining, windowsPerRoutine(hsize)).remaining
    /\ UNCHANGED <<entry, nrows, ncols, Values, inRange, above, below,
                   nAttributes, pc, dataOffset, horizonBufferSize, to, guard,
                   herrs, aerrs, hw, joined, computeErrors, hcount, acount,
                   buffer, fetchRet, ret, chunks, cacheVars, fnVars>>

\* core.go:769,803-805  the loop ends
AttrSpawnDone ==
    /\ pc = "attr_loop"
    /\ ~(remaining > 0)
    /\ pc' = "attr_join"
    /\ joined' = 0
    /\ computeErrors' = <<>>
    /\ UNCHANGED <<entry, nrows, ncols, Values, inRange, above, below,
                   nAttributes, dataOffset, horizonBufferSize, from, to,
                   remaining, nRoutines, guard, herrs, aerrs, hw, aw, hcount,
                   acount, buffer, fetchRet, ret, chunks, cacheVars, fnVars>>

\* core.go:779-794, capi.cpp:327-391  C.attribute returns: the outputs of the
\* chunk are written, or an error
AttributeCall(w) ==
    /\ w \in DOMAIN aw
    /\ aw[w].pc = "call"
    /\ \E ok \in BOOLEAN :
          IF noDataToIterateOver(aw[w].from, aw[w].to)
          THEN /\ aw' = [aw EXCEPT ![w].pc = "post",
                                   ![w].err = NoDataError(aw[w].from)]
               /\ UNCHANGED <<buffer, acount>>
          ELSE IF ok
          THEN /\ buffer' = cppapi_attributes(buffer, dataOffset,
                                              aw[w].from, aw[w].to)
               /\ acount' = [k \in Cells |->
                                IF k \in chunkCells(aw[w].from, aw[w].to)
                                THEN acount[k] + 1 ELSE acount[k]]
               /\ aw' = [aw EXCEPT ![w].pc = "post", ![w].err = NoError]
          ELSE /\ aw' = [aw EXCEPT ![w].pc = "post",
                                   ![w].err = AttributeError(aw[w].from)]
               /\ UNCHANGED <<buffer, acount>>
    /\ UNCHANGED <<entry, nrows, ncols, Values, inRange, above, below,
                   nAttributes, pc, dataOffset, horizonBufferSize, from, to,
                   remaining, nRoutines, guard, herrs, aerrs, hw, joined,
                   computeErrors, hcount, fetchRet, ret, chunks, cacheVars, fnVars>>

\* core.go:796  errs <- toError(cErr, cCtx)
AttributePost(w) ==
    /\ w \in DOMAIN aw
    /\ aw[w].pc = "post"
    /\ Len(aerrs) < maxConcurrency
    /\ aerrs' = Append(aerrs, aw[w].err)
    /\ aw' = [aw EXCEPT ![w].pc = "exit"]
    /\ UNCHANGED <<entry, nrows, ncols, Values, inRange, above, below,
                   nAttributes, pc, dataOffset, horizonBufferSize, from, to,
                   remaining, nRoutines, guard, herrs, hw, joined,
                   computeErrors, hcount, acount, buffer, fetchRet, ret, chunks,
                   cacheVars, fnVars>>

\* core.go:805-810  one result is received
AttrRecv ==
    /\ pc = "attr_join"
    /\ joinPending(joined, nRoutines, computeErrors)
    /\ Len(aerrs) > 0
    /\ aerrs' = Tail(aerrs)
    /\ computeErrors' = IF Head(aerrs) # NoError
                        THEN Append(computeErrors, Head(aerrs))
                        ELSE computeErrors
    /\ joined' = joined + 1
    /\ UNCHANGED <<entry, nrows, ncols, Values, inRange, above, below,
                   nAttributes, pc, dataOffset, horizonBufferSize, from, to,
                   remaining, nRoutines, guard, herrs, hw, aw, hcount, acount,
                   buffer, fetchRet, ret, chunks, cacheVars, fnVars>>

\* core.go:812-821, 657-667  calculateAttributes returns, and GetAttributes
\* returns what it returned
AttrReturn ==
    /\ pc = "attr_join"
    /\ ~joinPending(joined, nRoutines, computeErrors)
    /\ ret' = joinResult(computeErrors, buffer)
    /\ pc' = "done"
    /\ UNCHANGED <<entry, nrows, ncols, Values, inRange, above, below,
                   nAttributes, dataOffset, horizonBufferSize, from, to,
                   remaining, nRoutines, guard, herrs, aerrs, hw, aw, joined,
                   computeErrors, hcount, acount, buffer, fetchRet, chunks,
                   cacheVars, fnVars>>

(***************************************************************************)
(* Specification of GetAttributes with its goroutines.                      *)
(***************************************************************************)
\* a surface without fill cells that lies inside the cube
InitShape(nr, nc) ==
    /\ nrows = nr /\ ncols = nc
    /\ Values = [k \in 0 .. nr * nc - 1 |-> PopValue]
    /\ inRange = [k \in 0 .. nr * nc - 1 |-> TRUE]
    /\ above = 1 /\ below = 1
    /\ nAttributes = 1
    /\ chunks = <<>>
    /\ EngineIdle

Init ==
    /\ \/ /\ entry = "GetAttributes"
          /\ \E nr \in 1 .. MaxCells, nc \in 1 .. MaxCells :
                nr * nc <= MaxCells /\ InitShape(nr, nc)
       \/ /\ entry = "fetchHorizon"
          /\ \E nr \in 1 .. MaxRows, nc \in 1 .. MaxCols : InitShape(nr, nc)
    /\ CacheIdle
    /\ FnIdle

Orchestrator ==
    \/ GetAttributes
    \/ FetchSpawn
    \/ FetchSpawnDone
    \/ FetchRecv
    \/ FetchReturn
    \/ AttrSpawn
    \/ AttrSpawnDone
    \/ AttrRecv
    \/ AttrReturn

HorizonWorker(w) == HorizonCall(w) \/ HorizonPost(w) \/ HorizonRelease(w)

AttributeWorker(w) == AttributeCall(w) \/ AttributePost(w)

Next ==
    \/ Orchestrator
    \/ \E w \in DOMAIN hw : HorizonWorker(w)
    \/ \E w \in DOMAIN aw : AttributeWorker(w)

Spec == Init /\ [][Next]_vars

\* the goroutines a pass can start
WorkerIds == 1 .. max(MaxCells, MaxCols)

\* the scheduler lets every goroutine that can take a step take one, and
\* every C call returns
SpecFair ==
    /\ Init
    /\ [][Next]_vars
    /\ WF_vars(Orchestrator)
    /\ \A w \in WorkerIds : WF_vars(HorizonWorker(w))
    /\ \A w \in WorkerIds : WF_vars(AttributeWorker(w))

(***************************************************************************)
(* GetAttributes on surfaces with fill cells and cells outside the cube.    *)
(***************************************************************************)
InitFill ==
    /\ entry = "GetAttributes"
    /\ \E nr \in 1 .. MaxFillCells, nc \in 1 .. MaxFillCells :
          /\ nr * nc <= MaxFillCells
          /\ nrows = nr /\ ncols = nc
          /\ Values \in [0 .. nr * nc - 1 -> {FillValue, PopValue}]
          /\ inRange \in [0 .. nr * nc - 1 -> BOOLEAN]
    /\ above \in 0 .. MaxShift
    /\ below \in 0 .. MaxShift
    /\ nAttributes = MaxAttrs
    /\ chunks = <<>>
    /\ EngineIdle
    /\ CacheIdle
    /\ FnIdle

SpecFill == InitFill /\ [][Next]_vars

(***************************************************************************)
(* The chunking loops evaluated on their own, for larger surfaces.          *)
(***************************************************************************)
InitPartition ==
    /\ \/ /\ entry = "fetchChunks"
          /\ nrows \in 1 .. MaxPartRows
          /\ ncols \in 1 .. MaxPartCols
       \/ /\ entry = "attrChunks"
          /\ nrows = 1
          /\ ncols \in 0 .. MaxHsize
    /\ Values = [k \in Cells |-> PopValue]
    /\ inRange = [k \in Cells |-> TRUE]
    /\ above = 1 /\ below = 1
    /\ nAttributes = 1
    /\ chunks = <<>>
    /\ EngineIdle
    /\ CacheIdle
    /\ FnIdle

\* core.go:697-729  the spawning loop of fetchHorizon, run to its end
FetchChunksRun ==
    /\ entry = "fetchChunks"
    /\ pc = "start"
    /\ chunks' = fetchChunks(nrows, ncols)
    /\ pc' = "done"
    /\ UNCHANGED <<entry, nrows, ncols, Values, inRange, above, below,
                   nAttributes, dataOffset, horizonBufferSize, from, to,
                   remaining, nRoutines, guard, herrs, aerrs, hw, aw, joined,
                   computeErrors, hcount, acount, buffer, fetchRet, ret,
                   cacheVars, fnVars>>

\* core.go:766-801  the spawning loop of calculateAttributes, run to its end
AttrChunksRun ==
    /\ entry = "attrChunks"
    /\ pc = "start"
    /\ chunks' = attrChunks(hsize)
    /\ pc' = "done"
    /\ UNCHANGED <<entry, nrows, ncols, Values, inRange, above, below,
                   nAttributes, dataOffset, horizonBufferSize, from, to,
                   remaining, nRoutines, guard, herrs, aerrs, hw, aw, joined,
                   computeErrors, hcount, acount, buffer, fetchRet, ret,
                   cacheVars, fnVars>>

NextPartition == FetchChunksRun \/ AttrChunksRun

SpecPartition == InitPartition /\ [][NextPartition]_vars

(***************************************************************************)
(* The handlers of the endpoints slice, fence and attributes, and the       *)
(* response cache they share: capi.cpp:543-735.                             *)
(***************************************************************************)
Endpoints == {"slice", "fence", "attributes"}

\* capi.cpp:655-656
lowerBound == 0
upperBound == 250

\* capi.cpp:654-685
validateVerticalWindow(abv, blw, stepSize) ==
    IF abv < lowerBound \/ abv >= upperBound
    THEN <<"InvalidArgument", "above">>
    ELSE IF blw < lowerBound \/ blw >= upperBound
    THEN <<"InvalidArgument", "below">>
    ELSE IF stepSize < lowerBound
    THEN <<"InvalidArgument", "stepsize">>
    ELSE NoError

\* the vertical windows <<above, below, stepsize>> the requests ask for
Windows == {<<0, 0, 0>>, <<upperBound, 0, 0>>, <<0, lowerBound - 1, 0>>}

\* the calls of a handler in the order of its code
steps(kind) ==
    CASE kind = "slice" ->
            <<"conn", "hash", "get", "open", "axis", "metadata", "data", "set">>
      [] kind = "fence" ->
            <<"conn", "hash", "get", "open", "coordsys", "interpolation",
              "metadata", "data", "set">>
      [] kind = "attributes" ->
            <<"validate", "conn", "hash", "open", "get", "interpolation",
              "metadata", "data", "set">>

nextStep(kind, at) ==
    LET i == CHOOSE j \in DOMAIN steps(kind) : steps(kind)[j] = at
    IN  IF i = Len(steps(kind)) THEN "done" ELSE steps(kind)[i + 1]

\* the error a failing call returns
StepError(at) == <<"error", at>>

\* mutant: no error aborts the handler
abortOnError_never(err) == FALSE

\* capi.cpp:543-551
abortOnError(err) == err # NoError

\* mutant: a hit is served whoever asks
serveFromCache_hit(hit, authorised) == hit

\* capi.cpp:588, 621, 704  if hit && conn.IsAuthorizedToRead()
serveFromCache(hit, authorised) == hit /\ authorised

\* Connection.IsAuthorizedToRead: what the connection made for the request
\* reports
IsAuthorizedToRead(conn) == conn # Nil /\ conn[2]

\* mutant: the key leaves out the kind of the request
Hash_noKind(kind, id, window) == <<"hash", "slice", id, window>>

\* request.Hash(): the fingerprint of the normative fields of the request,
\* credentials excluded
Hash(kind, id, window) == <<"hash", kind, id, window>>

\* what the engine computes for a request
Metadata(kind, id, window) == <<"metadata", kind, id, window>>
Data(kind, id, window) == <<"data", kind, id, window>>

\* cache.NewCacheEntry(data, metadata); the size of an entry is the size of
\* its data, the identifier of the request in units of the capacity
NewCacheEntry(data, metadata) ==
    [metadata |-> metadata, data |-> data,
     size |-> IF data = Nil THEN 0 ELSE data[3]]

NoEntry == [key |-> Nil, metadata |-> Nil, data |-> Nil, size |-> 0]

\* position of the entry with key k in c, 0 when there is none
keyIndex(c, k) ==
    IF \E i \in DOMAIN c : c[i].key = k
    THEN CHOOSE i \in DOMAIN c : c[i].key = k
    ELSE 0

without(c, i) ==
    IF i = 0 THEN c ELSE SubSeq(c, 1, i - 1) \o SubSeq(c, i + 1, Len(c))

\* Cache.Get(key): the entry is returned and becomes the most recently used
Cache_Get(c, k) ==
    LET i == keyIndex(c, k)
    IN  IF i = 0
        THEN [hit |-> FALSE, entry |-> NoEntry, cache |-> c]
        ELSE [hit |-> TRUE, entry |-> c[i], cache |-> <<c[i]>> \o without(c, i)]

RECURSIVE totalSize(_)
totalSize(c) == IF c = <<>> THEN 0 ELSE Head(c).size + totalSize(Tail(c))

\* mutant: nothing is dropped
evict_none(c, cap) == c

\* least recently used entries are dropped until the capacity holds the rest
RECURSIVE evict(_, _)
evict(c, cap) ==
    IF c # <<>> /\ totalSize(c) > cap
    THEN evict(SubSeq(c, 1, Len(c) - 1), cap)
    ELSE c

\* Cache.Set(key, entry): the entry is admitted when it fits the capacity
Cache_Set(c, cap, k, e) ==
    IF e.size > cap
    THEN c
    ELSE evict(<<[key |-> k, metadata |-> e.metadata, data |-> e.data,
                  size |-> e.size]>> \o without(c, keyIndex(c, k)), cap)

\* capi.cpp:592, 625, 702  defer handle.Close() runs when the handler returns
closed(r) == IF r.handle = "open" THEN "closed" ELSE r.handle

\* capi.cpp:543-551  ctx.AbortWithError, and the handler returns
abort(r, err) ==
    [r EXCEPT !.pc = "done", !.handle = closed(r),
              !.resp = [status |-> "error", source |-> "none",
                        metadata |-> Nil, data |-> Nil]]

proceed(r) == [r EXCEPT !.pc = nextStep(r.kind, r.pc)]

\* a request arrives and a goroutine that serves none takes it
Request(h) ==
    /\ reqs[h].pc \in {"idle", "done"}
    /\ \E kind \in Endpoints, id \in 1 .. MaxIds, w \in Windows :
          /\ kind # "attributes" => w = <<0, 0, 0>>
          /\ reqs' = [reqs EXCEPT ![h] =
                [IdleRequest EXCEPT !.kind = kind, !.id = id, !.window = w,
                                    !.pc = steps(kind)[1]]]
    /\ UNCHANGED <<gaVars, chunks, fnVars, cacheSize, cache>>

\* capi.cpp:690-691
ValidateVerticalWindow(h) ==
    /\ reqs[h].pc = "validate"
    /\ LET r == reqs[h]
           err == validateVerticalWindow(r.window[1], r.window[2], r.window[3])
       IN  reqs' = [reqs EXCEPT ![h] =
                IF abortOnError(err) THEN abort(r, err) ELSE proceed(r)]
    /\ UNCHANGED <<gaVars, chunks, fnVars, cacheSize, cache>>

\* capi.cpp:581-582, 614-615, 693-694
MakeVdsConnection(h) ==
    /\ reqs[h].pc = "conn"
    /\ \E ok \in BOOLEAN, authorised \in BOOLEAN :
          LET r == reqs[h]
              err == IF ok THEN NoError ELSE StepError(r.pc)
              conn == IF ok THEN <<"conn", authorised>> ELSE Nil
          IN  reqs' = [reqs EXCEPT ![h] =
                  IF abortOnError(err) THEN abort(r, err)
                  ELSE [proceed(r) EXCEPT !.conn = conn]]
    /\ UNCHANGED <<gaVars, chunks, fnVars, cacheSize, cache>>

\* capi.cpp:584-585, 617-618, 696-697
RequestHash(h) ==
    /\ reqs[h].pc = "hash"
    /\ \E ok \in BOOLEAN :
          LET r == reqs[h]
              err == IF ok THEN NoError ELSE StepError(r.pc)
              key == IF ok THEN Hash(r.kind, r.id, r.window) ELSE Nil
          IN  reqs' = [reqs EXCEPT ![h] =
                  IF abortOnError(err) THEN abort(r, err)
                  ELSE [proceed(r) EXCEPT !.key = key]]
    /\ UNCHANGED <<gaVars, chunks, fnVars, cacheSize, cache>>

\* capi.cpp:587-592, 620-625, 703-708  Cache.Get and the answer from the cache
CacheGet(h) ==
    /\ reqs[h].pc = "get"
    /\ LET r == reqs[h]
           got == Cache_Get(cache, r.key)
       IN  /\ cache' = got.cache
           /\ reqs' = [reqs EXCEPT ![h] =
                 IF serveFromCache(got.hit, IsAuthorizedToRead(r.conn))
                 THEN [r EXCEPT !.pc = "done", !.hit = got.hit,
                                !.handle = closed(r),
                                !.resp = [status |-> "ok", source |-> "cache",
                                          metadata |-> got.entry.metadata,
                                          data |-> got.entry.data]]
                 ELSE [proceed(r) EXCEPT !.hit = got.hit]]
    /\ UNCHANGED <<gaVars, chunks, fnVars, cacheSize>>

\* capi.cpp:594-596, 627-629, 699-701  vds.NewVDSHandle(conn)
NewVDSHandle(h) ==
    /\ reqs[h].pc = "open"
    /\ \E ok \in BOOLEAN :
          LET r == reqs[h]
              err == IF ok THEN NoError ELSE StepError(r.pc)
          IN  reqs' = [reqs EXCEPT ![h] =
                  IF abortOnError(err) THEN abort(r, err)
                  ELSE [proceed(r) EXCEPT !.handle = IF ok THEN "open" ELSE "none"]]
    /\ UNCHANGED <<gaVars, chunks, fnVars, cacheSize, cache>>

\* capi.cpp:598-599, 631-637, 710-711  GetAxis, GetCoordinateSystem,
\* GetInterpolationMethod on the option named in the request
ParseOption(h) ==
    /\ reqs[h].pc \in {"axis", "coordsys", "interpolation"}
    /\ \E ok \in BOOLEAN :
          LET r == reqs[h]
              err == IF ok THEN NoError ELSE StepError(r.pc)
          IN  reqs' = [reqs EXCEPT ![h] =
                  IF abortOnError(err) THEN abort(r, err) ELSE proceed(r)]
    /\ UNCHANGED <<gaVars, chunks, fnVars, cacheSize, cache>>

\* capi.cpp:601-602, 639-640, 713-714
GetMetadata(h) ==
    /\ reqs[h].pc = "metadata"
    /\ \E ok \in BOOLEAN :
          LET r == reqs[h]
              err == IF ok THEN NoError ELSE StepError(r.pc)
              metadata == IF ok THEN Metadata(r.kind, r.id, r.window) ELSE Nil
          IN  reqs' = [reqs EXCEPT ![h] =
                  IF abortOnError(err) THEN abort(r, err)
                  ELSE [proceed(r) EXCEPT !.metadata = metadata]]
    /\ UNCHANGED <<gaVars, chunks, fnVars, cacheSize, cache>>

\* capi.cpp:604-605, 642-647, 716-730  GetSlice, GetFence, GetAttributes
GetData(h) ==
    /\ reqs[h].pc = "data"
    /\ \E ok \in BOOLEAN :
          LET r == reqs[h]
              err == IF ok THEN NoError ELSE StepError(r.pc)
              data == IF ok THEN Data(r.kind, r.id, r.window) ELSE Nil
          IN  reqs' = [reqs EXCEPT ![h] =
                  IF abortOnError(err) THEN abort(r, err)
                  ELSE [proceed(r) EXCEPT !.data = data]]
    /\ UNCHANGED <<gaVars, chunks, fnVars, cacheSize, cache>>

\* capi.cpp:607-609, 649-651, 732-734  Cache.Set and the fresh answer
CacheSet(h) ==
    /\ reqs[h].pc = "set"
    /\ LET r == reqs[h]
       IN  /\ cache' = Cache_Set(cache, cacheSize, r.key,
                                 NewCacheEntry(r.data, r.metadata))
           /\ reqs' = [reqs EXCEPT ![h] =
                 [r EXCEPT !.pc = "done", !.handle = closed(r),
                           !.resp = [status |-> "ok", source |-> "fresh",
                                     metadata |-> r.metadata,
                                     data |-> r.data]]]
    /\ UNCHANGED <<gaVars, chunks, fnVars, cacheSize>>

InitCache ==
    /\ entry = "handlers"
    /\ InitShape(1, 1)
    /\ cacheSize \in 0 .. MaxCacheSize
    /\ cache = <<>>
    /\ reqs = [h \in Handlers |-> IdleRequest]
    /\ FnIdle

Handler(h) ==
    \/ Request(h)
    \/ ValidateVerticalWindow(h)
    \/ MakeVdsConnection(h)
    \/ RequestHash(h)
    \/ CacheGet(h)
    \/ NewVDSHandle(h)
    \/ ParseOption(h)
    \/ GetMetadata(h)
    \/ GetData(h)
    \/ CacheSet(h)

NextCache == \E h \in Handlers : Handler(h)

SpecCache == InitCache /\ [][NextCache]_vars

(***************************************************************************)
(* Properties of the handlers and the cache.                                *)
(***************************************************************************)
\* C3: an answer is taken from the cache only by a request whose Cache.Get
\* hit and whose connection is authorised to read; a request whose
\* connection is not authorised and that is answered is answered with the
\* metadata and the data it read itself through a handle of its own, also
\* when Cache.Get found an entry for its key.
C3_CacheOnlyForAuthorised ==
    \A h \in Handlers :
        LET r == reqs[h]
        IN  /\ r.resp.source = "cache" =>
                  r.hit /\ IsAuthorizedToRead(r.conn)
            /\ (r.pc = "done" /\ r.resp.status = "ok"
                  /\ ~IsAuthorizedToRead(r.conn)) =>
                  /\ r.resp.source = "fresh"
                  /\ r.handle = "closed"
                  /\ r.metadata = Metadata(r.kind, r.id, r.window)
                  /\ r.data = Data(r.kind, r.id, r.window)
                  /\ r.resp.metadata = r.metadata
                  /\ r.resp.data = r.data

\* a request without authorisation found its key in the cache and was
\* answered from a read of its own
C3_Witness ==
    \E h \in Handlers :
        /\ reqs[h].pc = "done"
        /\ reqs[h].hit
        /\ ~IsAuthorizedToRead(reqs[h].conn)
        /\ reqs[h].resp.status = "ok"
        /\ reqs[h].resp.source = "fresh"

CacheContent == {cache[i] : i \in DOMAIN cache}

\* the entry is the metadata and the data computed for the request of its key
Complete(e) ==
    /\ e.key # Nil
    /\ e.metadata = Metadata(e.key[2], e.key[3], e.key[4])
    /\ e.data = Data(e.key[2], e.key[3], e.key[4])

\* C4: every entry of the cache is the complete pair of metadata and data
\* of its request; only the Cache.Set of a request that produced both its
\* metadata and its data changes the entries the cache holds; the step in
\* which a handler aborts leaves the cache as it is, and a handler that
\* aborts has not reached its Cache.Set.
C4_NoPartialEntries ==
    /\ [](\A i \in DOMAIN cache : Complete(cache[i]))
    /\ [][\A h \in Handlers :
            /\ (reqs'[h] # reqs[h] /\ reqs[h].pc # "set") =>
                  CacheContent' = CacheContent
            /\ (reqs'[h] # reqs[h] /\ reqs[h].pc = "set") =>
                  /\ reqs[h].metadata # Nil
                  /\ reqs[h].data # Nil
                  /\ reqs'[h].resp.status = "ok"
            /\ (reqs'[h] # reqs[h] /\ reqs'[h].resp.status = "error") =>
                  /\ reqs[h].pc # "set"
                  /\ cache' = cache]_vars

\* a request failed in reading its data, after its metadata, while the
\* cache holds the entry of another request and none for this one
C4_Witness ==
    \E h \in Handlers :
        /\ reqs[h].pc = "done"
        /\ reqs[h].resp.status = "error"
        /\ reqs[h].metadata # Nil
        /\ reqs[h].data = Nil
        /\ cache # <<>>
        /\ keyIndex(cache, reqs[h].key) = 0

(***************************************************************************)
(* Properties of GetAttributes.                                             *)
(***************************************************************************)
\* the cell is marked as missing in the request, or lies outside the cube
FillCell(k) == Values[k] = FillValue \/ ~inRange[k]

\* C1: a cell whose value is the fill value, or whose horizontal position
\* is outside the cube, takes no samples in the horizon buffer, no kernel
\* result is ever written for it, and every attribute map returned holds
\* the fill value in it.
C1_FillCellsYieldFill ==
    /\ pc # "start" =>
          \A k \in Cells : FillCell(k) => dataOffset[k + 1] - dataOffset[k] = 0
    /\ \A a \in 1 .. nAttributes : \A k \in Cells :
          buffer[a][k] = "value" => ~FillCell(k)
    /\ ret.status = "ok" =>
          \A a \in 1 .. nAttributes : \A k \in Cells :
              FillCell(k) => ret.out[a][k] = "fill"

\* a request with a missing cell and a cell outside the cube has succeeded
C1_Witness ==
    /\ ret.status = "ok"
    /\ \E k \in Cells : Values[k] = FillValue /\ inRange[k]
    /\ \E k \in Cells : Values[k] # FillValue /\ ~inRange[k]

horizonFailed == \E w \in DOMAIN hw : hw[w].err # NoError
attributeFailed == \E w \in DOMAIN aw : aw[w].err # NoError

\* C2: when a worker of either pass reported an error GetAttributes
\* returns an error and no buffer at all, and once a horizon worker has
\* failed no attribute worker is ever started.
C2_AllOrNothing ==
    /\ ret.status = "error" => ret.out = <<>>
    /\ horizonFailed => aw = <<>>
    /\ (pc = "done" /\ entry = "GetAttributes"
          /\ (horizonFailed \/ attributeFailed)) =>
             ret.status = "error" /\ ret.out = <<>>

\* an attribute worker wrote its chunk, another failed, and the call returned
C2_Witness ==
    /\ pc = "done"
    /\ ret.status = "error"
    /\ attributeFailed
    /\ \E k \in Cells : acount[k] > 0

hposted == {w \in DOMAIN hw : hw[w].pc \in {"release", "exit"}}
aposted == {w \in DOMAIN aw : aw[w].pc = "exit"}

\* C5: a pass returns only when each of its chunks has been started and
\* each worker has posted its result and the orchestrator has received it;
\* while it joins, the results received and the results waiting in the
\* channel are the results posted.
C5_JoinsEveryWorker ==
    /\ pc = "fetch_join" =>
          /\ nRoutines = Len(hw)
          /\ joined + Len(herrs) = Cardinality(hposted)
    /\ pc = "attr_join" =>
          /\ nRoutines = Len(aw)
          /\ joined + Len(aerrs) = Cardinality(aposted)
    /\ fetchRet.status # "running" =>
          /\ Len(hw) = Len(fetchChunks(nrows, ncols))
          /\ hposted = DOMAIN hw
          /\ herrs = <<>>
    /\ (ret.status # "running" /\ fetchRet.status = "ok") =>
          /\ Len(aw) = Len(attrChunks(hsize))
          /\ aposted = DOMAIN aw
          /\ aerrs = <<>>

\* the first of several horizon workers failed and the pass has returned
C5_Witness ==
    /\ fetchRet.status = "error"
    /\ Len(hw) > 2
    /\ hw[1].err # NoError
    /\ hw[Len(hw)].err = NoError

\* C7: the horizon workers that hold a guard slot are as many as the
\* guard channel has elements, never more than max(nrows/2, 1); a worker
\* that gave its slot back has posted its result before.
C7_GuardBound ==
    /\ Cardinality({w \in DOMAIN hw : hw[w].pc # "exit"}) = guard
    /\ guard <= (IF nrows \div 2 > 1 THEN nrows \div 2 ELSE 1)
    /\ pc \in {"fetch_loop", "fetch_join"} =>
          Cardinality({w \in DOMAIN hw : hw[w].pc = "exit"})
              <= joined + Len(herrs)

\* two workers hold the two slots of a four-row surface while a chunk waits
C7_Witness ==
    /\ pc = "fetch_loop"
    /\ nrows = 4
    /\ guard = 2
    /\ from < hsize

\* error of the failed worker of a pass with the lowest chunk
firstFailed(ws) ==
    ws[CHOOSE w \in DOMAIN ws :
          /\ ws[w].err # NoError
          /\ \A v \in DOMAIN ws : ws[v].err # NoError => w <= v].err

failedPass == IF fetchRet.status = "error" THEN hw ELSE aw

\* C10 as stated: the error returned is the same in every interleaving.
\* The interleaving in which the workers post in chunk order returns the
\* error of the failed worker with the lowest chunk, so a returned error
\* that is independent of the interleaving is that error.
C10_Deterministic ==
    (pc = "done" /\ ret.status = "error") => ret.err = firstFailed(failedPass)

\* C10 amended: the error returned is the first error received from the
\* result channel; the errors collected are the errors of the failed
\* workers of the pass, each once; with one failed worker it is its error.
C10_FirstReceived ==
    (pc = "done" /\ ret.status = "error") =>
        LET failed == {w \in DOMAIN failedPass : failedPass[w].err # NoError}
        IN  /\ ret.err = computeErrors[1]
            /\ {computeErrors[i] : i \in DOMAIN computeErrors}
                 = {failedPass[w].err : w \in failed}
            /\ Len(computeErrors) = Cardinality(failed)
            /\ Cardinality(failed) = 1 => ret.err = firstFailed(failedPass)

\* two workers failed and the error returned is the one of the later chunk
C10_Witness ==
    /\ pc = "done"
    /\ ret.status = "error"
    /\ Len(computeErrors) = 2
    /\ ret.err # firstFailed(failedPass)

\* C9: under fair scheduling, with every C call returning, both passes
\* come to their end whatever workers fail: the workers started never
\* outnumber the capacity of their result channel, so that no post waits;
\* GetAttributes returns, every worker has run to its end and every guard
\* slot taken has been given back.
C9_Terminates ==
    /\ [](Len(hw) <= fetchErrsCap(nrows, hsize) /\ Len(aw) <= maxConcurrency)
    /\ [](\A w \in DOMAIN hw : hw[w].pc = "post" =>
             Len(herrs) < fetchErrsCap(nrows, hsize))
    /\ [](\A w \in DOMAIN aw : aw[w].pc = "post" => Len(aerrs) < maxConcurrency)
    /\ <>[](/\ pc = "done"
            /\ guard = 0
            /\ herrs = <<>> /\ aerrs = <<>>
            /\ \A w \in DOMAIN hw : hw[w].pc = "exit"
            /\ \A w \in DOMAIN aw : aw[w].pc = "exit")

\* a one-row surface of three columns, whose chunks wait in turn for the
\* single guard slot, has been fetched to the end with a failed worker
C9_Witness ==
    /\ pc = "done"
    /\ nrows = 1
    /\ Len(hw) = 3
    /\ horizonFailed
    /\ guard = 0
    /\ \A w \in DOMAIN hw : hw[w].pc = "exit"

(***************************************************************************)
(* Properties of the chunking.                                              *)
(***************************************************************************)
\* C6: the ranges handed to the workers of a pass are non-empty, follow
\* each other without gap or overlap from 0 to hsize, and contain every
\* cell once; fetchHorizon's chunks hold max(nrows, 1) cells,
\* calculateAttributes's hold ceil(hsize/32) cells, the last one possibly
\* fewer; no range triggers the range check of the C function attribute.
C6_Partition ==
    pc = "done" =>
        LET n == Len(chunks)
            size == IF entry = "fetchChunks"
                    THEN (IF nrows > 1 THEN nrows ELSE 1)
                    ELSE (hsize + 31) \div 32
        IN  /\ \A i \in 1 .. n : chunks[i].from < chunks[i].to
            /\ \A i \in 1 .. n : ~noDataToIterateOver(chunks[i].from, chunks[i].to)
            /\ hsize > 0 => n > 0 /\ chunks[1].from = 0 /\ chunks[n].to = hsize
            /\ hsize = 0 => n = 0
            /\ \A i \in 1 .. n - 1 : chunks[i].to = chunks[i + 1].from
            /\ \A k \in Cells :
                  Cardinality({i \in 1 .. n :
                      chunks[i].from <= k /\ k < chunks[i].to}) = 1
            /\ \A i \in 1 .. n - 1 : chunks[i].to - chunks[i].from = size
            /\ n > 0 => chunks[n].to - chunks[n].from <= size

\* the attribute pass over 70 cells: chunks of three cells and a last of one
C6_Witness ==
    /\ pc = "done"
    /\ entry = "attrChunks"
    /\ hsize = 70
    /\ Len(chunks) = 24
    /\ chunks[24].to - chunks[24].from = 1

\* C8: for hsize >= 1 calculateAttributes starts
\* ceil(hsize / ceil(hsize/32)) workers, at least one and at most 32,
\* the capacity of its result channel.
C8_WorkerCount ==
    (pc = "done" /\ entry = "attrChunks" /\ hsize >= 1) =>
        LET w == (hsize + 31) \div 32
        IN  /\ Len(chunks) = (hsize + w - 1) \div w
            /\ Len(chunks) >= 1
            /\ Len(chunks) <= 32

\* 65 cells are handled by 22 workers of three cells
C8_Witness ==
    /\ pc = "done"
    /\ entry = "attrChunks"
    /\ hsize = 65
    /\ Len(chunks) = 22

(***************************************************************************)
(* Attributes along a surface and between two surfaces.                     *)
(***************************************************************************)
\* mutant: the primary surface taken as the upper one in every cell
alignedTop_primary(primary, secondary) ==
    [k \in DOMAIN primary |->
        IF primary[k] = FillValue \/ secondary[k] = FillValue THEN FillValue
        ELSE primary[k]]

\* the upper of two surfaces on one grid; a cell that either of them marks
\* as missing is missing
alignedTop(primary, secondary) ==
    [k \in DOMAIN primary |->
        IF primary[k] = FillValue \/ secondary[k] = FillValue THEN FillValue
        ELSE min(primary[k], secondary[k])]

\* the lower of two surfaces on one grid
alignedBottom(primary, secondary) ==
    [k \in DOMAIN primary |->
        IF primary[k] = FillValue \/ secondary[k] = FillValue THEN FillValue
        ELSE max(primary[k], secondary[k])]

\* attributes between two surfaces: the offsets are those of the windows
\* from the upper to the lower surface, the two passes are those of
\* GetAttributes
GetAttributesBetweenSurfaces ==
    /\ pc = "start"
    /\ entry = "GetAttributesBetweenSurfaces"
    /\ dataOffset' = horizon_buffer_offsets(
                        toCdata(Values, 0),
                        alignedTop(toCdata(Values, 0), toCdata(Secondary, 0)),
                        alignedBottom(toCdata(Values, 0), toCdata(Secondary, 0)),
                        inRange, hsize)
    /\ horizonBufferSize' = horizonBufferBytes(dataOffset'[hsize])
    /\ from' = 0
    /\ to' = 0 + chunkSize(nrows)
    /\ nRoutines' = 0
    /\ pc' = "fetch_loop"
    /\ UNCHANGED <<entry, nrows, ncols, Values, inRange, above, below,
                   nAttributes, remaining, guard, herrs, aerrs, hw, aw, joined,
                   computeErrors, hcount, acount, buffer, fetchRet, ret, chunks,
                   cacheVars, fnVars>>

InitModes ==
    /\ \E nr \in 1 .. MaxFillCells, nc \in 1 .. MaxFillCells :
          /\ nr * nc <= MaxFillCells
          /\ nrows = nr /\ ncols = nc
          /\ Values \in [0 .. nr * nc - 1 -> {FillValue, PopValue}]
          /\ inRange \in [0 .. nr * nc - 1 -> BOOLEAN]
          /\ \/ /\ entry = "GetAttributes"
                /\ above \in 0 .. MaxShift
                /\ below \in 0 .. MaxShift
                /\ Secondary = <<>>
             \/ /\ entry = "GetAttributesBetweenSurfaces"
                /\ above = 0 /\ below = 0
                /\ Secondary \in [0 .. nr * nc - 1 ->
                                    {FillValue, PopValue + MaxShift}]
    /\ nAttributes = MaxAttrs
    /\ chunks = <<>>
    /\ input = <<>>
    /\ result = <<>>
    /\ EngineIdle
    /\ CacheIdle

NextModes == GetAttributesBetweenSurfaces \/ Next

SpecModes == InitModes /\ [][NextModes]_vars

\* no cell of the request holds samples: each is missing in the primary or
\* in the secondary surface, or lies outside the cube
NoPopulatedCell ==
    \A k \in Cells :
        \/ FillCell(k)
        \/ entry = "GetAttributesBetweenSurfaces" /\ Secondary[k] = FillValue

\* C11: a request without a populated cell has offsets[hsize] = 0 and a
\* horizon buffer of one element; no worker takes the address of an empty
\* buffer and none is handed an empty range; when no read fails it returns a
\* map for every attribute, with the fill value in every cell; along the
\* surface and between two surfaces.
C11_AllFillSucceeds ==
    NoPopulatedCell =>
        /\ pc # "start" => dataOffset[hsize] = 0 /\ horizonBufferSize = 1
        /\ ret.status # "panic"
        /\ \A w \in DOMAIN hw : hw[w].pc # "panic"
        /\ \A w \in DOMAIN aw : aw[w].err # NoDataError(aw[w].from)
        /\ (pc = "done" /\ ~horizonFailed /\ ~attributeFailed) =>
              /\ ret.status = "ok"
              /\ DOMAIN ret.out = 1 .. nAttributes
              /\ \A a \in 1 .. nAttributes : \A k \in Cells :
                    ret.out[a][k] = "fill"

\* two cells outside the cube, neither marked as missing, gave maps of
\* fill values
C11_Witness ==
    /\ entry = "GetAttributes"
    /\ hsize = 2
    /\ NoPopulatedCell
    /\ \A k \in Cells : Values[k] # FillValue
    /\ ret.status = "ok"

(***************************************************************************)
(* The cube of the tests and the sampling of a horizon: vds.cpp:356-482.   *)
(***************************************************************************)
\* core_test.go:85-87  the axes of the cube well_known, with ni inlines, nx
\* crosslines and ns samples in the vertical unit zunit
Cube(ni, nx, ns, zunit) ==
    [iline  |-> [name |-> "Inline", min |-> 1, stepsize |-> 2, nsamples |-> ni],
     xline  |-> [name |-> "Crossline", min |-> 10, stepsize |-> 1,
                 nsamples |-> nx],
     sample |-> [name |-> "Sample", min |-> 4, stepsize |-> 4, nsamples |-> ns],
     zunit  |-> zunit]

well_known == Cube(3, 2, 4, "ms")

\* Positions on an axis are counted in half voxels, so that the shift of
\* half a voxel is the integer 1.
\* AnnotationToIJKPosition along one axis: the voxel of an annotation value
annotationToVoxel(axis, a) == (2 * (a - axis.min)) \div axis.stepsize

\* vds.cpp:373-375  inrange, on a position shifted to the voxel centre
inrange(axis, voxel) == 0 <= voxel /\ voxel < 2 * axis.nsamples

\* mutant: the vertical window is checked before the horizontal position
cellClass_verticalFirst(depth, inr, na, nb, axis) ==
    LET k == annotationToVoxel(axis, depth) + 1
    IN  IF depth = FillValue THEN "noval"
        ELSE IF ~inrange(axis, k - 2 * na) \/ ~inrange(axis, k + 2 * nb)
        THEN "error"
        ELSE IF ~inr THEN "noval"
        ELSE "samples"

\* vds.cpp:413-447  what fetch_horizon does with one cell: it is recorded as
\* a cell without value, or the request fails, or its samples are emitted
cellClass(depth, inr, na, nb, axis) ==
    LET k == annotationToVoxel(axis, depth) + 1
    IN  IF depth = FillValue THEN "noval"
        ELSE IF ~inr THEN "noval"
        ELSE IF ~inrange(axis, k - 2 * na) \/ ~inrange(axis, k + 2 * nb)
        THEN "error"
        ELSE "samples"

\* vds.cpp:411-454  the loop over the cells in row-major order, from cell i
RECURSIVE fetch_horizon_from(_, _, _, _, _, _, _, _)
fetch_horizon_from(i, novals, surface, nc, inr, na, nb, axis) ==
    IF i = Len(surface) THEN [status |-> "ok", err |-> NoError, novals |-> novals]
    ELSE LET class == cellClass(surface[i + 1], inr[i + 1], na, nb, axis)
         IN  IF class = "error"
             THEN [status |-> "error",
                   err |-> <<"Vertical window is out of vertical bounds",
                             i \div nc, i % nc>>,
                   novals |-> <<>>]
             ELSE fetch_horizon_from(
                     i + 1,
                     IF class = "noval" THEN Append(novals, i) ELSE novals,
                     surface, nc, inr, na, nb, axis)

\* vds.cpp:356-482  fetch_horizon
fetch_horizon(surface, nc, inr, na, nb, axis) ==
    fetch_horizon_from(0, <<>>, surface, nc, inr, na, nb, axis)

\* the depths asked for: the samples of the axis, one sample and half a
\* sample before the first, half a sample and one sample after the last
Depths(axis) ==
    {axis.min + axis.stepsize * h : h \in -1 .. axis.nsamples}
        \cup {axis.min - axis.stepsize \div 2,
              axis.min + axis.stepsize * (axis.nsamples - 1)
                       + axis.stepsize \div 2}

\* the cells as a sequence, in row-major order
flat(f) == [i \in 1 .. hsize |-> f[i - 1]]

InitHorizon ==
    /\ entry = "fetch_horizon"
    /\ \E ns \in 1 .. MaxSamples :
          /\ input = [cube |-> Cube(3, 2, ns, "ms")]
          /\ \E nr \in 1 .. MaxFillCells, nc \in 1 .. MaxFillCells :
                /\ nr * nc <= MaxFillCells
                /\ nrows = nr /\ ncols = nc
                /\ Values \in [0 .. nr * nc - 1 ->
                                 {FillValue} \cup Depths(input.cube.sample)]
                /\ inRange \in [0 .. nr * nc - 1 -> BOOLEAN]
    /\ above \in 0 .. MaxShift
    /\ below \in 0 .. MaxShift
    /\ nAttributes = 1
    /\ chunks = <<>>
    /\ Secondary = <<>>
    /\ result = <<>>
    /\ EngineIdle
    /\ CacheIdle

FetchHorizonRun ==
    /\ entry = "fetch_horizon"
    /\ pc = "start"
    /\ result' = fetch_horizon(flat(Values), ncols, flat(inRange), above, below,
                               input.cube.sample)
    /\ pc' = "done"
    /\ UNCHANGED <<entry, nrows, ncols, Values, inRange, above, below,
                   nAttributes, dataOffset, horizonBufferSize, from, to,
                   remaining, nRoutines, guard, herrs, aerrs, hw, aw, joined,
                   computeErrors, hcount, acount, buffer, fetchRet, ret, chunks,
                   cacheVars, Secondary, input>>

SpecHorizon == InitHorizon /\ [][FetchHorizonRun]_vars

\* the position is inside the axis: from half a voxel before the first
\* sample to half a voxel after the last
insideAxis(axis, v) == -1 <= v /\ v < 2 * axis.nsamples - 1

\* the cell is populated and its window leaves the vertical axis
windowOutside(k) ==
    /\ Values[k] # FillValue
    /\ inRange[k]
    /\ LET v == annotationToVoxel(input.cube.sample, Values[k])
       IN  \/ ~insideAxis(input.cube.sample, v - 2 * above)
           \/ ~insideAxis(input.cube.sample, v + 2 * below)

AttributeNames == {"samplevalue", "min", "max"}

\* sizeof(float)
sizeofFloat == 4

\* core.go:758  mapsize: the bytes of one attribute map
mapsize(hs) == hs * 4

\* mutant: the maps are laid out one cell, not one float, apart
outsOffset_cells(hs, i) == hs * i

\* capi.cpp:375-378  outs[i] = out + horizon.mapsize() * i
outsOffset(hs, i) == hs * sizeofFloat * i

\* cppapi::attributes over the cells [f, t): the value of attribute i at
\* cell k is the float at outs[i] + k * sizeof(float); a byte is
\* represented by what it belongs to
writeAttributes(buf, hs, attrs, f, t) ==
    [p \in DOMAIN buf |->
        IF \E i \in 0 .. Len(attrs) - 1, k \in f .. t - 1, b \in 0 .. sizeofFloat - 1 :
               p = outsOffset(hs, i) + k * sizeofFloat + b
        THEN LET i == CHOOSE i \in 0 .. Len(attrs) - 1 :
                        \E k \in f .. t - 1, b \in 0 .. sizeofFloat - 1 :
                            p = outsOffset(hs, i) + k * sizeofFloat + b
                 r == p - outsOffset(hs, i)
             IN  <<i, attrs[i + 1], r \div sizeofFloat, r % sizeofFloat>>
        ELSE buf[p]]

\* core.go:816-819  out[i] = buffer[i*mapsize : (i+1)*mapsize]
sliceOut(buf, hs, n) ==
    [i \in 0 .. n - 1 |->
        [j \in 0 .. mapsize(hs) - 1 |-> buf[i * mapsize(hs) + j]]]

RECURSIVE AttrLists(_)
AttrLists(n) ==
    IF n = 1 THEN {<<a>> : a \in AttributeNames}
    ELSE AttrLists(n - 1)
            \cup {Append(l, a) : l \in {x \in AttrLists(n - 1) : Len(x) = n - 1},
                                 a \in AttributeNames}

\* core.go:757-759  the arguments, and the zeroed buffer of make
InitLayout ==
    /\ entry = "calculateAttributes"
    /\ \E hs \in 0 .. MaxCells, attrs \in AttrLists(MaxAttrs) :
          /\ input = [hsize |-> hs, attributes |-> attrs]
          /\ result = [buffer  |-> [p \in 0 .. mapsize(hs) * Len(attrs) - 1 |-> <<>>],
                       pending |-> {attrChunks(hs)[c] : c \in DOMAIN attrChunks(hs)},
                       out     |-> <<>>]
    /\ nrows = 1 /\ ncols = 1
    /\ Values = [k \in {0} |-> FillValue]
    /\ inRange = [k \in {0} |-> TRUE]
    /\ above = 0 /\ below = 0
    /\ nAttributes = 1
    /\ chunks = <<>>
    /\ Secondary = <<>>
    /\ EngineIdle
    /\ CacheIdle

LayoutUnchanged ==
    UNCHANGED <<entry, nrows, ncols, Values, inRange, above, below,
                nAttributes, dataOffset, horizonBufferSize, from, to,
                remaining, nRoutines, guard, herrs, aerrs, hw, aw, joined,
                computeErrors, hcount, acount, buffer, fetchRet, ret, chunks,
                cacheVars, Secondary, input>>

\* core.go:775-797  one goroutine: C.attribute over its range, with success
AttributeWrite ==
    /\ entry = "calculateAttributes"
    /\ pc = "start"
    /\ \E c \in result.pending :
          result' = [result EXCEPT
                       !.buffer = writeAttributes(@, input.hsize,
                                                  input.attributes, c.from, c.to),
                       !.pending = @ \ {c}]
    /\ UNCHANGED pc
    /\ LayoutUnchanged

\* core.go:803-821  every goroutine was received without error: the maps
\* are cut out of the buffer
AttributeSlice ==
    /\ entry = "calculateAttributes"
    /\ pc = "start"
    /\ result.pending = {}
    /\ result' = [result EXCEPT
                    !.out = sliceOut(result.buffer, input.hsize,
                                     Len(input.attributes))]
    /\ pc' = "done"
    /\ LayoutUnchanged

NextLayout == AttributeWrite \/ AttributeSlice

SpecLayout == InitLayout /\ [][NextLayout]_vars

\* C13: on success there is one map per requested attribute, in the order
\* of the request, repeated names included; each map has hsize * 4 bytes;
\* map i is the i-th region of mapsize bytes of the buffer, and holds, for
\* every cell in order, the four bytes the workers wrote for attribute i
\* of the request at that cell.
C13_OneMapPerAttribute ==
    (entry = "calculateAttributes" /\ pc = "done") =>
        LET n  == Len(input.attributes)
            hs == input.hsize
        IN  /\ DOMAIN result.out = 0 .. n - 1
            /\ \A i \in 0 .. n - 1 :
                  /\ DOMAIN result.out[i] = 0 .. hs * 4 - 1
                  /\ \A j \in 0 .. hs * 4 - 1 :
                        /\ result.out[i][j] = result.buffer[i * hs * 4 + j]
                        /\ result.out[i][j]
                              = <<i, input.attributes[i + 1], j \div 4, j % 4>>

\* two maps of the same attribute over more than one cell
C13_Witness ==
    /\ entry = "calculateAttributes"
    /\ pc = "done"
    /\ input.hsize >= 2
    /\ Len(input.attributes) = 2
    /\ input.attributes[1] = input.attributes[2]

(***************************************************************************)
(* Fences: core.go:455-499, capi.cpp:180-207, vds.cpp:206-283.             *)
(* Coordinates are given in halves (the number 3 stands for 1.5) and a     *)
(* position on an axis is the fraction num / den of voxels, den > 0.       *)
(***************************************************************************)
CoordinateSystems == {"index", "annotation", "cdp"}

\* core_test.go:752-765  the geometry of well_known: the CDP coordinates
\* of index (0, 0) and the steps of one inline and of one crossline
well_known_cdp == [origin |-> <<2, 0>>, iline |-> <<6, 4>>, xline |-> <<-2, 3>>]

\* the input coordinates, in the coordinate system cs, of the position
\* (i / 2, j / 2) of the cube
toInput(cube, cs, i, j) ==
    CASE cs = "index" -> <<i, j>>
      [] cs = "annotation" ->
            <<2 * cube.iline.min + cube.iline.stepsize * i,
              2 * cube.xline.min + cube.xline.stepsize * j>>
      [] cs = "cdp" ->
            LET g == well_known_cdp
            IN  <<2 * g.origin[1] + g.iline[1] * i + g.xline[1] * j,
                  2 * g.origin[2] + g.iline[2] * i + g.xline[2] * j>>

\* vds.cpp:218-231  transform_coordinate: the IJ position of (x, y)
transform_coordinate(cube, cs, x, y) ==
    CASE cs = "index" -> <<[num |-> x, den |-> 2], [num |-> y, den |-> 2]>>
      [] cs = "annotation" ->
            <<[num |-> x - 2 * cube.iline.min, den |-> 2 * cube.iline.stepsize],
              [num |-> y - 2 * cube.xline.min, den |-> 2 * cube.xline.stepsize]>>
      [] cs = "cdp" ->
            LET g   == well_known_cdp
                det == g.iline[1] * g.xline[2] - g.iline[2] * g.xline[1]
                dx  == x - 2 * g.origin[1]
                dy  == y - 2 * g.origin[2]
            IN  <<[num |-> g.xline[2] * dx - g.xline[1] * dy, den |-> 2 * det],
                  [num |-> g.iline[1] * dy - g.iline[2] * dx, den |-> 2 * det]>>

\* vds.cpp:242-246  coordinate[voxel] < -0.5 || coordinate[voxel] >= nsamples - 0.5
outOfBoundaries(p, axis) ==
    \/ 2 * p.num < 0 - p.den
    \/ 2 * p.num >= (2 * axis.nsamples - 1) * p.den

\* mutant: the crossline is validated before the inline
validate_boundary_crosslineFirst(cube, coordinate) ==
    IF outOfBoundaries(coordinate[2], cube.xline) THEN 1
    ELSE IF outOfBoundaries(coordinate[1], cube.iline) THEN 0
    ELSE -1

\* vds.cpp:255-256  validate_boundary(0, inline_axis), then
\* validate_boundary(1, crossline_axis): the dimension that throws, or -1
validate_boundary(cube, coordinate) ==
    IF outOfBoundaries(coordinate[1], cube.iline) THEN 0
    ELSE IF outOfBoundaries(coordinate[2], cube.xline) THEN 1
    ELSE -1

\* vds.cpp:268-282  the position handed to the data request, in half
\* voxels, shifted to the voxel centre
requestPosition(coordinate) ==
    <<(2 * coordinate[1].num) \div coordinate[1].den + 1,
      (2 * coordinate[2].num) \div coordinate[2].den + 1>>

\* read_traces: the trace read at a position of the request; as in the
\* cube of the tests every sample has a value of its own, from 100 on
trace(cube, pos) ==
    [s \in 1 .. cube.sample.nsamples |->
        100 + (pos[1] * 2 * cube.xline.nsamples + pos[2]) * cube.sample.nsamples
            + (s - 1)]

\* a trace of the fill value
fillTrace(cube, fill) == [s \in 1 .. cube.sample.nsamples |-> fill[1]]

\* core.go:459  fillValue *float32: nil, or a pointer to the value
NoFill == <<>>

\* mutant: a point outside the cube is left out of the result
outsideTrace_dropped(cube, fill) == <<>>

\* cppapi::fence with a fill value: the traces of a point outside the cube
outsideTrace(cube, fill) == <<fillTrace(cube, fill)>>

\* vds.cpp:236-283  the loop over the points from point i, with the traces
\* gathered so far.  Without fill value the first point outside the cube
\* throws; with one, cppapi::fence substitutes a trace of the fill value.
RECURSIVE fence_from(_, _, _, _, _, _)
fence_from(i, traces, cube, cs, coordinates, fill) ==
    IF i > Len(coordinates)
    THEN [status |-> "ok", err |-> NoError, traces |-> traces]
    ELSE LET x == coordinates[i][1]
             y == coordinates[i][2]
             coordinate == transform_coordinate(cube, cs, x, y)
             d == validate_boundary(cube, coordinate)
         IN  IF d = -1
             THEN fence_from(i + 1,
                             Append(traces, trace(cube, requestPosition(coordinate))),
                             cube, cs, coordinates, fill)
             ELSE IF fill = NoFill
             THEN [status |-> "error",
                   err |-> <<"Coordinate is out of boundaries in dimension", x, y, d>>,
                   traces |-> <<>>]
             ELSE fence_from(i + 1, traces \o outsideTrace(cube, fill),
                             cube, cs, coordinates, fill)

\* capi.cpp:180-207  fence
fence(cube, cs, coordinates, fill) ==
    fence_from(1, <<>>, cube, cs, coordinates, fill)

\* mutant: the last point that is not a pair is reported
invalidCoordinate_last(coordinates) ==
    LET bad == {i \in DOMAIN coordinates : Len(coordinates[i]) # 2}
    IN  IF bad = {} THEN 0 ELSE CHOOSE i \in bad : \A j \in bad : j <= i

\* core.go:463-472  the first point, counted from 1, that is not a pair;
\* 0 when every point is one
invalidCoordinate(coordinates) ==
    LET bad == {i \in DOMAIN coordinates : Len(coordinates[i]) # 2}
    IN  IF bad = {} THEN 0 ELSE CHOOSE i \in bad : \A j \in bad : i <= j

\* core.go:455-499  GetFence; ccalls counts the calls of C.fence
GetFence(cube, cs, coordinates, fill) ==
    LET bad == invalidCoordinate(coordinates)
    IN  IF bad # 0
        THEN [status |-> "InvalidArgument",
              err |-> <<"invalid coordinate at position, expected [x y] pair",
                        coordinates[bad], bad - 1>>,
              traces |-> <<>>, ccalls |-> 0]
        ELSE IF indexOutOfRange(Len(coordinates) * 2)
        THEN [status |-> "panic", err |-> NoError, traces |-> <<>>, ccalls |-> 0]
        ELSE [ccalls |-> 1] @@ fence(cube, cs, coordinates, fill)

\* positions at the ends of an axis: one voxel and half a voxel before the
\* first sample, the last sample, half a voxel after it
EdgePositions(axis) == {-2, -1, 2 * axis.nsamples - 2, 2 * axis.nsamples - 1}

FencePoints(cube, cs) ==
    {toInput(cube, cs, i, j) : i \in EdgePositions(cube.iline),
                               j \in EdgePositions(cube.xline)}
        \cup {<<0>>, <<0, 0, 0>>}

RECURSIVE SeqsUpTo(_, _)
SeqsUpTo(S, n) ==
    IF n = 0 THEN {<<>>}
    ELSE SeqsUpTo(S, n - 1)
            \cup {Append(l, e) : l \in {x \in SeqsUpTo(S, n - 1) : Len(x) = n - 1},
                                 e \in S}

InitFence ==
    /\ entry = "GetFence"
    /\ \E cs \in CoordinateSystems, fill \in {NoFill, <<FillValue>>} :
          \E coordinates \in SeqsUpTo(FencePoints(well_known, cs), MaxPoints) :
             input = [cube |-> well_known, coordinateSystem |-> cs,
                      coordinates |-> coordinates, fillValue |-> fill]
    /\ result = <<>>
    /\ nrows = 1 /\ ncols = 1
    /\ Values = [k \in {0} |-> FillValue]
    /\ inRange = [k \in {0} |-> TRUE]
    /\ above = 0 /\ below = 0
    /\ nAttributes = 1
    /\ chunks = <<>>
    /\ Secondary = <<>>
    /\ EngineIdle
    /\ CacheIdle

GetFenceRun ==
    /\ entry = "GetFence"
    /\ pc = "start"
    /\ result' = GetFence(input.cube, input.coordinateSystem,
                          input.coordinates, input.fillValue)
    /\ pc' = "done"
    /\ LayoutUnchanged

SpecFence == InitFence /\ [][GetFenceRun]_vars

\* every point of the request is a pair, and there is at least one
FencePairs ==
    /\ entry = "GetFence"
    /\ input.coordinates # <<>>
    /\ \A i \in DOMAIN input.coordinates : Len(input.coordinates[i]) = 2

\* point i of the request lies outside the cube in dimension d
outside(i, d) ==
    LET c == transform_coordinate(input.cube, input.coordinateSystem,
                                  input.coordinates[i][1], input.coordinates[i][2])
    IN  outOfBoundaries(c[d + 1], IF d = 0 THEN input.cube.iline
                                  ELSE input.cube.xline)

OutsidePoints == {i \in DOMAIN input.coordinates : outside(i, 0) \/ outside(i, 1)}

\* C14: without fill value a fence with a point outside the cube fails as
\* a whole and returns no trace; the error carries the coordinates of the
\* first such point of the request and the dimension 0 if that point is
\* outside on the inline axis, 1 otherwise; in every coordinate system.
C14_FirstPointOutside ==
    (FencePairs /\ pc = "done" /\ input.fillValue = NoFill) =>
        /\ result.status = "error" <=> OutsidePoints # {}
        /\ OutsidePoints # {} =>
              LET i == CHOOSE i \in OutsidePoints : \A j \in OutsidePoints : i <= j
              IN  /\ result.traces = <<>>
                  /\ result.err = <<"Coordinate is out of boundaries in dimension",
                                    input.coordinates[i][1], input.coordinates[i][2],
                                    IF outside(i, 0) THEN 0 ELSE 1>>

\* the second point is outside in both dimensions, the first only on the
\* crossline axis: the error is about the first, in dimension 1
C14_Witness ==
    /\ FencePairs /\ pc = "done" /\ input.fillValue = NoFill
    /\ input.coordinateSystem = "cdp"
    /\ Len(input.coordinates) = 2
    /\ ~outside(1, 0) /\ outside(1, 1)
    /\ outside(2, 0) /\ outside(2, 1)
    /\ input.coordinates[1] # input.coordinates[2]
    /\ result.status = "error"
    /\ result.err[4] = 1


\* the point lies outside the cube
outsidePoint(pt) ==
    validate_boundary(input.cube,
        transform_coordinate(input.cube, input.coordinateSystem, pt[1], pt[2])) # -1

insidePoint(pt) == ~outsidePoint(pt)

\* C15: with a fill value a fence never fails for a point outside the
\* cube: there is one trace of sample.nsamples values per point, in the
\* order of the request; the trace of a point outside the cube is the fill
\* value throughout; the trace of a point inside is the trace the same
\* point gets in the request made of the inside points only.
C15_FillNeverFails ==
    (FencePairs /\ pc = "done" /\ input.fillValue # NoFill) =>
        LET inside  == SelectSeq(input.coordinates, insidePoint)
            sub     == GetFence(input.cube, input.coordinateSystem, inside, NoFill)
            rank(i) == Cardinality({j \in 1 .. i : insidePoint(input.coordinates[j])})
            ns      == input.cube.sample.nsamples
        IN  /\ result.status = "ok"
            /\ Len(result.traces) = Len(input.coordinates)
            /\ \A i \in DOMAIN input.coordinates :
                  /\ DOMAIN result.traces[i] = 1 .. ns
                  /\ outsidePoint(input.coordinates[i]) =>
                        \A s \in 1 .. ns : result.traces[i][s] = input.fillValue[1]
                  /\ insidePoint(input.coordinates[i]) =>
                        /\ sub.status = "ok"
                        /\ result.traces[i] = sub.traces[rank(i)]

\* a point outside the cube followed by one inside
C15_Witness ==
    /\ FencePairs /\ pc = "done" /\ input.fillValue # NoFill
    /\ Len(input.coordinates) = 2
    /\ outsidePoint(input.coordinates[1])
    /\ insidePoint(input.coordinates[2])
    /\ result.status = "ok"
    /\ Len(result.traces) = 2

\* C16: when some point of the request is not a pair, GetFence returns
\* InvalidArgument with the position, counted from 0, of the first such
\* point, and C.fence is not called, whatever the other points are.
C16_PairCheckFirst ==
    (entry = "GetFence" /\ pc = "done"
        /\ \E i \in DOMAIN input.coordinates : Len(input.coordinates[i]) # 2) =>
        LET bad == {i \in DOMAIN input.coordinates : Len(input.coordinates[i]) # 2}
            i   == CHOOSE i \in bad : \A j \in bad : i <= j
        IN  /\ result.status = "InvalidArgument"
            /\ result.err[2] = input.coordinates[i]
            /\ result.err[3] = i - 1
            /\ result.ccalls = 0
            /\ result.traces = <<>>

\* a pair outside the cube comes before the point that is not a pair, and
\* there is no fill value
C16_Witness ==
    /\ entry = "GetFence" /\ pc = "done"
    /\ input.fillValue = NoFill
    /\ Len(input.coordinates) = 2
    /\ Len(input.coordinates[1]) = 2
    /\ outsidePoint(input.coordinates[1])
    /\ Len(input.coordinates[2]) = 3
    /\ result.status = "InvalidArgument"
    /\ result.err[3] = 1

(***************************************************************************)
(* Status codes and error kinds: capi.cpp:36-51, core.go:260-278,          *)
(* capi.cpp:516-523.                                                       *)
(***************************************************************************)
\* what the engine can throw: nothing, detail::nullptr_error,
\* detail::bad_request, any other std::exception
Exceptions == {"none", "nullptr_error", "bad_request", "std::exception"}

\* mutant: a bad request is reported as a runtime error
handle_exception_runtime(e) ==
    CASE e = "none"          -> "STATUS_OK"
      [] e = "nullptr_error" -> "STATUS_NULLPTR_ERROR"
      [] OTHER               -> "STATUS_RUNTIME_ERROR"

\* capi.cpp:36-51  handle_exception
handle_exception(e) ==
    CASE e = "none"          -> "STATUS_OK"
      [] e = "nullptr_error" -> "STATUS_NULLPTR_ERROR"
      [] e = "bad_request"   -> "STATUS_BAD_REQUEST"
      [] OTHER               -> "STATUS_RUNTIME_ERROR"

\* core.go:260-278  toError; "nil" is no error, "error" the plain error of
\* errors.New
toError(status) ==
    CASE status = "STATUS_OK"            -> "nil"
      [] status = "STATUS_NULLPTR_ERROR" -> "InternalError"
      [] status = "STATUS_RUNTIME_ERROR" -> "InternalError"
      [] status = "STATUS_BAD_REQUEST"   -> "InvalidArgument"
      [] OTHER                           -> "error"

\* capi.cpp:516-523  httpStatusCode
httpStatusCode(err) ==
    CASE err = "InvalidArgument" -> 400
      [] err = "InternalError"   -> 500
      [] OTHER                   -> 500

(***************************************************************************)
(* Slices: capi.cpp:124-150, core.go:416-433, vds.cpp:79-159.              *)
(***************************************************************************)
\* ctypes.h: enum axis_name
AxisNames == {"i", "j", "k", "inline", "crossline", "depth", "time", "sample"}

\* the vertical units: millisecond, second, meter, foot, US survey foot,
\* unitless
Units == {"ms", "s", "m", "ft", "usft", "unitless"}

\* mutant: every direction is accepted on every cube
unit_validation_any(ax, zunit) == TRUE

\* vds.cpp:79-116  unit_validation
unit_validation(ax, zunit) ==
    CASE ax \in {"i", "j", "k", "inline", "crossline"} -> TRUE
      [] ax = "depth"  -> zunit \in {"m", "ft", "usft"}
      [] ax = "time"   -> zunit \in {"ms", "s"}
      [] ax = "sample" -> zunit \in {"unitless"}

\* Direction::coordinate_system
coordinate_system(ax) ==
    IF ax \in {"i", "j", "k"} THEN "index" ELSE "annotation"

\* metadatahandle.cpp:81-90  get_axis, as the dimension of the axis
dimension(ax) ==
    CASE ax \in {"i", "inline"}    -> 1
      [] ax \in {"j", "crossline"} -> 2
      [] OTHER                     -> 3

axes(cube) == <<cube.iline, cube.xline, cube.sample>>

\* mutant: a line between two lines of the axis is moved to the line below
lineIndex_floor(axis, lineno, cs) ==
    IF cs = "index"
    THEN IF 0 <= lineno /\ lineno < axis.nsamples THEN lineno ELSE -1
    ELSE IF lineno >= axis.min
             /\ (lineno - axis.min) \div axis.stepsize < axis.nsamples
         THEN (lineno - axis.min) \div axis.stepsize
         ELSE -1

\* SubVolume::set_slice: the voxel of a line number, -1 for "Invalid lineno"
lineIndex(axis, lineno, cs) ==
    IF cs = "index"
    THEN IF 0 <= lineno /\ lineno < axis.nsamples THEN lineno ELSE -1
    ELSE IF lineno >= axis.min
             /\ (lineno - axis.min) % axis.stepsize = 0
             /\ (lineno - axis.min) \div axis.stepsize < axis.nsamples
         THEN (lineno - axis.min) \div axis.stepsize
         ELSE -1

\* the value of a voxel: as in the cube of the tests, 100 at voxel
\* (0, 0, 0), counted up along samples, then crosslines, then inlines
voxelValue(cube, i, j, k) ==
    100 + (i * cube.xline.nsamples + j) * cube.sample.nsamples + k

\* read_subvolume: the voxels lower <= v < upper, the inline running
\* slowest and the sample fastest
read_subvolume(cube, lower, upper) ==
    LET ni == upper[1] - lower[1]
        nj == upper[2] - lower[2]
        nk == upper[3] - lower[3]
    IN  [p \in 1 .. ni * nj * nk |->
            voxelValue(cube,
                       lower[1] + ((p - 1) \div (nj * nk)),
                       lower[2] + (((p - 1) \div nk) % nj),
                       lower[3] + ((p - 1) % nk))]

\* SubVolume(metadata): every axis over its full range, lower <= v < upper
fullVolume(cube) ==
    [lower |-> <<0, 0, 0>>,
     upper |-> <<cube.iline.nsamples, cube.xline.nsamples, cube.sample.nsamples>>]

\* mutant: the first bound on an axis is kept
applyBound_keepFirst(sub, cube, b, sliceDim) ==
    LET d  == dimension(b.name)
        cs == coordinate_system(b.name)
        lo == lineIndex(axes(cube)[d], b.lower, cs)
        hi == lineIndex(axes(cube)[d], b.upper, cs)
    IN  IF ~unit_validation(b.name, cube.zunit) THEN <<>>
        ELSE IF d = sliceDim THEN sub
        ELSE IF lo = -1 \/ hi = -1 THEN <<>>
        ELSE IF sub.lower[d] # 0 \/ sub.upper[d] # axes(cube)[d].nsamples THEN sub
        ELSE [lower |-> [sub.lower EXCEPT ![d] = lo],
              upper |-> [sub.upper EXCEPT ![d] = hi + 1]]

\* SubVolume: one bound of the request.  A bound along the slice axis is
\* left out; the ends of any other bound are lines of its axis, both
\* included.  The result is the subvolume, or <<>> for a bound that is
\* refused.
applyBound(sub, cube, b, sliceDim) ==
    LET d  == dimension(b.name)
        cs == coordinate_system(b.name)
        lo == lineIndex(axes(cube)[d], b.lower, cs)
        hi == lineIndex(axes(cube)[d], b.upper, cs)
    IN  IF ~unit_validation(b.name, cube.zunit) THEN <<>>
        ELSE IF d = sliceDim THEN sub
        ELSE IF lo = -1 \/ hi = -1 THEN <<>>
        ELSE [lower |-> [sub.lower EXCEPT ![d] = lo],
              upper |-> [sub.upper EXCEPT ![d] = hi + 1]]

\* capi.cpp:138-142  the bounds are handed on in the order of the request
RECURSIVE applyBounds(_, _, _, _, _)
applyBounds(sub, cube, bounds, n, sliceDim) ==
    IF n > Len(bounds) \/ sub = <<>> THEN sub
    ELSE applyBounds(applyBound(sub, cube, bounds[n], sliceDim),
                     cube, bounds, n + 1, sliceDim)

sliceFailed(e, stage) ==
    [exception |-> e, stage |-> stage, shape |-> <<>>, data |-> <<>>]

\* capi.cpp:124-150, vds.cpp:133-159  slice: the unit of the vertical axis
\* is validated, then the subvolume is made from the bounds and the line,
\* then it is sized and read (vds.cpp:140-158)
slice(cube, ax, lineno, bounds) ==
    LET d   == dimension(ax)
        sub == applyBounds(fullVolume(cube), cube, bounds, 1, d)
        l   == lineIndex(axes(cube)[d], lineno, coordinate_system(ax))
    IN  IF ~unit_validation(ax, cube.zunit) THEN sliceFailed("bad_request", "unit")
        ELSE IF sub = <<>> THEN sliceFailed("bad_request", "bounds")
        ELSE IF l = -1 THEN sliceFailed("bad_request", "Invalid lineno")
        ELSE LET lower == [sub.lower EXCEPT ![d] = l]
                 upper == [sub.upper EXCEPT ![d] = l + 1]
             IN  [exception |-> "none", stage |-> "read",
                  shape |-> [x \in 1 .. 3 |-> upper[x] - lower[x]],
                  data |-> read_subvolume(cube, lower, upper)]

\* core.go:416-433  GetSlice: the error is v.Error of the status
GetSlice(cube, ax, lineno, bounds) ==
    LET r == slice(cube, ax, lineno, bounds)
    IN  [err |-> toError(handle_exception(r.exception))] @@ r

InitSlice ==
    /\ entry = "GetSlice"
    /\ \E zunit \in Units, ax \in AxisNames, lineno \in -1 .. MaxLineno :
          input = [cube |-> Cube(3, 2, 4, zunit), direction |-> ax,
                   lineno |-> lineno, bounds |-> <<>>]
    /\ result = <<>>
    /\ nrows = 1 /\ ncols = 1
    /\ Values = [k \in {0} |-> FillValue]
    /\ inRange = [k \in {0} |-> TRUE]
    /\ above = 0 /\ below = 0
    /\ nAttributes = 1
    /\ chunks = <<>>
    /\ Secondary = <<>>
    /\ EngineIdle
    /\ CacheIdle

GetSliceRun ==
    /\ entry = "GetSlice"
    /\ pc = "start"
    /\ result' = GetSlice(input.cube, input.direction, input.lineno, input.bounds)
    /\ pc' = "done"
    /\ LayoutUnchanged

SpecSlice == InitSlice /\ [][GetSliceRun]_vars

\* the axis the request slices along
sliceAxis == axes(input.cube)[dimension(input.direction)]

\* the line numbers of the request's direction
Lines ==
    IF input.direction \in {"i", "j", "k"}
    THEN 0 .. sliceAxis.nsamples - 1
    ELSE {sliceAxis.min + k * sliceAxis.stepsize : k \in 0 .. sliceAxis.nsamples - 1}

UnitMatches ==
    \/ input.direction \in {"i", "j", "k", "inline", "crossline"}
    \/ input.direction = "time"   /\ input.cube.zunit \in {"ms", "s"}
    \/ input.direction = "depth"  /\ input.cube.zunit \in {"m", "ft", "usft"}
    \/ input.direction = "sample" /\ input.cube.zunit = "unitless"

\* C17: a slice whose direction suits the cube is accepted only for a line
\* of the axis: min + k * stepsize with 0 <= k < nsamples for an
\* annotation direction, 0 <= lineno < nsamples for an index direction.
\* Every other line number ends in "Invalid lineno" without data.
C17_LinenoAcceptance ==
    (entry = "GetSlice" /\ pc = "done" /\ input.bounds = <<>> /\ UnitMatches) =>
        /\ input.lineno \in Lines =>
              result.err = "nil" /\ result.data # <<>>
        /\ input.lineno \notin Lines =>
              /\ result.err # "nil"
              /\ result.stage = "Invalid lineno"
              /\ result.data = <<>>

\* a line number between two lines of the time axis
C17_Witness ==
    /\ entry = "GetSlice" /\ pc = "done"
    /\ input.direction = "time" /\ input.cube.zunit = "ms"
    /\ input.lineno = 5
    /\ result.stage = "Invalid lineno"

BoundsOf(cube, name) ==
    LET a    == axes(cube)[dimension(name)]
        last == a.min + (a.nsamples - 1) * a.stepsize
    IN  IF coordinate_system(name) = "index"
        THEN {[name |-> name, lower |-> 0, upper |-> 0],
              [name |-> name, lower |-> a.nsamples - 1, upper |-> a.nsamples - 1],
              [name |-> name, lower |-> 0, upper |-> a.nsamples - 1]}
        ELSE IF name = "depth"
        THEN {[name |-> name, lower |-> a.min, upper |-> last]}
        ELSE {[name |-> name, lower |-> a.min, upper |-> a.min],
              [name |-> name, lower |-> last, upper |-> last],
              [name |-> name, lower |-> a.min, upper |-> last]}
             \cup IF name = "time"
                  THEN {[name |-> name, lower |-> a.min + a.stepsize,
                         upper |-> last + a.stepsize]}
                  ELSE {}

SliceBounds(cube) ==
    UNION {BoundsOf(cube, name) :
             name \in {"i", "inline", "j", "crossline", "k", "time", "depth"}}

\* core_test.go:143-148  a line of each axis, by index or by annotation
SliceRequests == {<<"i", 1>>, <<"crossline", 10>>, <<"time", 4>>, <<"k", 1>>}

InitSliceBounds ==
    /\ entry = "GetSlice"
    /\ \E r \in SliceRequests :
          \E bounds \in SeqsUpTo(SliceBounds(well_known), MaxBounds) :
             input = [cube |-> well_known, direction |-> r[1], lineno |-> r[2],
                      bounds |-> bounds]
    /\ result = <<>>
    /\ nrows = 1 /\ ncols = 1
    /\ Values = [k \in {0} |-> FillValue]
    /\ inRange = [k \in {0} |-> TRUE]
    /\ above = 0 /\ below = 0
    /\ nAttributes = 1
    /\ chunks = <<>>
    /\ Secondary = <<>>
    /\ EngineIdle
    /\ CacheIdle

SpecSliceBounds == InitSliceBounds /\ [][GetSliceRun]_vars

\* the bounds of the request that name the axis of dimension d
boundsOn(d) == {n \in DOMAIN input.bounds : dimension(input.bounds[n].name) = d}

\* the last of them
lastBoundOn(d) == input.bounds[CHOOSE n \in boundsOn(d) : \A m \in boundsOn(d) : m <= n]

\* the voxels of dimension d the request asks for
voxelsOn(d) ==
    LET a == axes(input.cube)[d]
        v(name, line) == IF coordinate_system(name) = "index" THEN line
                         ELSE (line - a.min) \div a.stepsize
    IN  IF d = dimension(input.direction)
        THEN {v(input.direction, input.lineno)}
        ELSE IF boundsOn(d) = {} THEN 0 .. a.nsamples - 1
        ELSE v(lastBoundOn(d).name, lastBoundOn(d).lower)
                .. v(lastBoundOn(d).name, lastBoundOn(d).upper)

\* the bound spans its whole axis
fullRange(b) ==
    LET a == axes(input.cube)[dimension(b.name)]
    IN  lineIndex(a, b.lower, coordinate_system(b.name)) = 0
        /\ lineIndex(a, b.upper, coordinate_system(b.name)) = a.nsamples - 1

\* the bound is the last on its axis, not on the slice axis and not over
\* the full range
effective(n) ==
    /\ dimension(input.bounds[n].name) # dimension(input.direction)
    /\ \A m \in DOMAIN input.bounds :
          dimension(input.bounds[m].name) = dimension(input.bounds[n].name) => m <= n
    /\ ~fullRange(input.bounds[n])

RECURSIVE effectiveBounds(_)
effectiveBounds(n) ==
    IF n > Len(input.bounds) THEN <<>>
    ELSE (IF effective(n) THEN <<input.bounds[n]>> ELSE <<>>) \o effectiveBounds(n + 1)

\* C19: in an accepted slice request each axis but the slice axis is cut
\* to the last bound that names it, by index or by annotation name, and
\* spans its full range without one; the slice axis is the one line asked
\* for, whatever bounds name it.  The request gives the same shape and
\* data as the request with only the last bound of each axis, without the
\* bounds on the slice axis and without the bounds over a full range.
C19_LastBoundWins ==
    (entry = "GetSlice" /\ pc = "done" /\ result.err = "nil") =>
        /\ \A d \in 1 .. 3 : result.shape[d] = Cardinality(voxelsOn(d))
        /\ {result.data[p] : p \in DOMAIN result.data}
              = {voxelValue(input.cube, i, j, k) :
                    i \in voxelsOn(1), j \in voxelsOn(2), k \in voxelsOn(3)}
        /\ Len(result.data) = result.shape[1] * result.shape[2] * result.shape[3]
        /\ \A p \in 1 .. Len(result.data) - 1 : result.data[p] < result.data[p + 1]
        /\ LET r == GetSlice(input.cube, input.direction, input.lineno,
                             effectiveBounds(1))
           IN  r.err = "nil" /\ r.shape = result.shape /\ r.data = result.data

\* a time slice with two different bounds on the inline axis, the first by
\* annotation and the second by index: only the last inline is returned
C19_Witness ==
    /\ entry = "GetSlice" /\ pc = "done" /\ result.err = "nil"
    /\ input.direction = "time"
    /\ Len(input.bounds) = 2
    /\ input.bounds[1] = [name |-> "inline", lower |-> 1, upper |-> 1]
    /\ input.bounds[2] = [name |-> "i", lower |-> 2, upper |-> 2]
    /\ result.data = <<116, 120>>


(***************************************************************************)
(* From an exception in the engine to the status of the response.          *)
(***************************************************************************)
\* the functions of the C interface that end in
\* catch (...) { return handle_exception(ctx, std::current_exception()); }
EngineFunctions ==
    {"datahandle_new", "regular_surface_new", "metadata", "slice",
     "slice_metadata", "fence", "fence_metadata", "horizon_buffer_offsets",
     "horizon", "attribute_metadata", "attribute", "align_surfaces"}

\* an engine function ends with or without an exception; or a step of the
\* handler outside the engine fails with a plain error
InitStatus ==
    /\ entry = "status"
    /\ \E f \in EngineFunctions :
          \/ \E e \in Exceptions :
                input = [function |-> f, origin |-> "engine", exception |-> e]
          \/ input = [function |-> f, origin |-> "handler", exception |-> "none"]
    /\ result = [status |-> "none", err |-> "none", aborted |-> FALSE, http |-> 0]
    /\ nrows = 1 /\ ncols = 1
    /\ Values = [k \in {0} |-> FillValue]
    /\ inRange = [k \in {0} |-> TRUE]
    /\ above = 0 /\ below = 0
    /\ nAttributes = 1
    /\ chunks = <<>>
    /\ Secondary = <<>>
    /\ EngineIdle
    /\ CacheIdle

\* capi.cpp:124-150 and alike: the function returns STATUS_OK or the status
\* of handle_exception
EngineReturn ==
    /\ entry = "status" /\ pc = "start"
    /\ input.origin = "engine"
    /\ result' = [result EXCEPT !.status = handle_exception(input.exception)]
    /\ pc' = "returned"
    /\ LayoutUnchanged

\* core.go:371-373  v.Error(cerr), or toError(cerr, cCtx) in a goroutine
StatusToError ==
    /\ entry = "status" /\ pc = "returned"
    /\ result' = [result EXCEPT !.err = toError(result.status)]
    /\ pc' = "error"
    /\ LayoutUnchanged

\* capi.cpp:581-585  a step outside the engine returns an error that is
\* neither InvalidArgument nor InternalError
HandlerError ==
    /\ entry = "status" /\ pc = "start"
    /\ input.origin = "handler"
    /\ result' = [result EXCEPT !.err = "error"]
    /\ pc' = "error"
    /\ LayoutUnchanged

\* capi.cpp:543-551  abortOnError; without error the handler goes on and
\* answers 200
AbortOnError ==
    /\ entry = "status" /\ pc = "error"
    /\ result' = [result EXCEPT
                    !.aborted = result.err # "nil",
                    !.http = IF result.err # "nil"
                             THEN httpStatusCode(result.err) ELSE 200]
    /\ pc' = "done"
    /\ LayoutUnchanged

NextStatus == EngineReturn \/ StatusToError \/ HandlerError \/ AbortOnError

SpecStatus == InitStatus /\ [][NextStatus]_vars

\* C20: the status of the response follows from the kind of the exception
\* alone, whatever the function: bad_request gives STATUS_BAD_REQUEST,
\* InvalidArgument and 400; nullptr_error gives STATUS_NULLPTR_ERROR and
\* any other std::exception STATUS_RUNTIME_ERROR, both InternalError and
\* 500; without exception the status is STATUS_OK and there is no error;
\* an error of any other type gives 500; an exception never ends in a
\* response of success.
C20_StatusByKind ==
    (entry = "status" /\ pc = "done") =>
        /\ (input.origin = "engine" /\ input.exception = "bad_request") =>
              /\ result.status = "STATUS_BAD_REQUEST"
              /\ result.err = "InvalidArgument"
              /\ result.aborted /\ result.http = 400
        /\ (input.origin = "engine" /\ input.exception = "nullptr_error") =>
              /\ result.status = "STATUS_NULLPTR_ERROR"
              /\ result.err = "InternalError"
              /\ result.aborted /\ result.http = 500
        /\ (input.origin = "engine" /\ input.exception = "std::exception") =>
              /\ result.status = "STATUS_RUNTIME_ERROR"
              /\ result.err = "InternalError"
              /\ result.aborted /\ result.http = 500
        /\ (input.origin = "engine" /\ input.exception = "none") =>
              /\ result.status = "STATUS_OK"
              /\ result.err = "nil"
              /\ ~result.aborted
        /\ input.origin = "handler" => result.aborted /\ result.http = 500
        /\ (input.origin = "engine" /\ input.exception # "none") =>
              result.aborted /\ result.http \in {400, 500}

\* a bad request raised in the attribute function was answered with 400
C20_Witness ==
    /\ entry = "status" /\ pc = "done"
    /\ input.function = "attribute"
    /\ input.exception = "bad_request"
    /\ result.http = 400

(***************************************************************************)
(* GetAttributes from its first statement to its return, with the C        *)
(* surfaces it creates and frees: core.go:214-258, 289-356, 554-668.       *)
(***************************************************************************)
\* core.go:216-243  the names GetAttributeType knows
SupportedAttributes ==
    {"samplevalue", "min", "max", "maxabs", "mean", "meanabs", "meanpos",
     "meanneg", "median", "rms", "var", "sd", "sumpos", "sumneg"}

\* ctypes.h: enum attribute, in lower case
enum_attribute ==
    SupportedAttributes \cup {"minat", "maxat", "maxabsat"}

\* strings.ToLower on the names of the requests below
ToLower(name) ==
    CASE name = "Min"         -> "min"
      [] name = "SAMPLEVALUE" -> "samplevalue"
      [] name = "MaxAt"       -> "maxat"
      [] OTHER                -> name

\* the names a request may hold
RequestNames ==
    enum_attribute \cup {"", "unknown", "Min", "SAMPLEVALUE", "MaxAt"}

\* mutant: every kernel of the C enum is accepted
GetAttributeType_enum(attribute) ==
    IF ToLower(attribute) \in enum_attribute
    THEN [id |-> ToLower(attribute), err |-> "nil"]
    ELSE [id |-> "", err |-> "InvalidArgument"]

\* core.go:214-258  GetAttributeType
GetAttributeType(attribute) ==
    IF ToLower(attribute) \in SupportedAttributes
    THEN [id |-> ToLower(attribute), err |-> "nil"]
    ELSE [id |-> "", err |-> "InvalidArgument"]

\* mutant: a window of zero is refused too
invalidAboveBelow_zero(abv, blw) == abv <= 0 \/ blw <= 0

\* core.go:571  above < 0 || below < 0
invalidAboveBelow(abv, blw) == abv < 0 \/ blw < 0

SurfaceNames == <<"primary", "top", "bottom">>

\* what can fail after the validation of the request
Failures ==
    {"none", "rows", "primary", "top", "bottom", "offsets", "horizon", "attribute"}

PrologueIdle ==
    [err |-> "nil", targetAttributes |-> <<>>,
     surfaces |-> [s \in {"primary", "top", "bottom"} |-> "none"],
     frees |-> [s \in {"primary", "top", "bottom"} |-> 0],
     nullFrees |-> 0, deferred |-> <<>>, cdata |-> 0, offsets |-> FALSE,
     pass |-> "none", nRoutines |-> 0, spawned |-> 0, running |-> 0,
     posted |-> <<>>, computeErrors |-> <<>>, received |-> 0]

InitPrologue ==
    /\ entry = "GetAttributes:return paths"
    /\ \/ \E names \in SeqsUpTo(RequestNames, MaxNames) \ {<<>>},
             abv \in {-1, 1} :
             input = [attributes |-> names, above |-> abv, below |-> 1,
                      fails |-> "none", nRoutines |-> 1]
       \/ \E abv \in -1 .. 1, blw \in -1 .. 1, f \in Failures,
             n \in 1 .. MaxWorkers :
             input = [attributes |-> <<"min", "samplevalue">>, above |-> abv,
                      below |-> blw, fails |-> f, nRoutines |-> n]
    /\ result = PrologueIdle
    /\ nrows = 1 /\ ncols = 1
    /\ Values = [k \in {0} |-> FillValue]
    /\ inRange = [k \in {0} |-> TRUE]
    /\ above = 0 /\ below = 0
    /\ nAttributes = 1
    /\ chunks = <<>>
    /\ Secondary = <<>>
    /\ EngineIdle
    /\ CacheIdle

InPrologue == entry = "GetAttributes:return paths"

\* a return statement: the deferred Close calls are still to run
returns(r, err) == [r EXCEPT !.err = err]

\* core.go:562-569  every name goes through GetAttributeType
CheckAttributeTypes ==
    /\ InPrologue /\ pc = "start"
    /\ LET ids == [i \in DOMAIN input.attributes |->
                      GetAttributeType(input.attributes[i])]
       IN  IF \E i \in DOMAIN ids : ids[i].err # "nil"
           THEN /\ result' = returns(result, "InvalidArgument")
                /\ pc' = "return"
           ELSE /\ result' = [result EXCEPT !.targetAttributes =
                                 [i \in DOMAIN ids |-> ids[i].id]]
                /\ pc' = "attributes"
    /\ LayoutUnchanged

\* core.go:571-578
CheckAboveBelow ==
    /\ InPrologue /\ pc = "attributes"
    /\ IF invalidAboveBelow(input.above, input.below)
       THEN /\ result' = returns(result, "InvalidArgument")
            /\ pc' = "return"
       ELSE /\ result' = result
            /\ pc' = "window"
    /\ LayoutUnchanged

\* core.go:589-619, 301-356  toCdata, then toCRegularSurface and the defer
\* of Close.  toCdata fails on rows of different lengths (core.go:308-315);
\* when regular_surface_new fails, *out was not set and the function frees
\* the null pointer itself (core.go:350-353).
NewSurface(s, at, next) ==
    /\ InPrologue /\ pc = at
    /\ IF input.fails = "rows"
       THEN /\ result' = returns(result, "InvalidArgument")
            /\ pc' = "return"
       ELSE IF input.fails = s
       THEN /\ result' = returns([result EXCEPT !.cdata = @ + 1,
                                                !.nullFrees = @ + 1],
                                 "InternalError")
            /\ pc' = "return"
       ELSE /\ result' = [result EXCEPT !.cdata = @ + 1,
                                        !.surfaces[s] = "live",
                                        !.deferred = <<s>> \o @]
            /\ pc' = next
    /\ LayoutUnchanged

\* core.go:621-635  C.horizon_buffer_offsets
HorizonBufferOffsets ==
    /\ InPrologue /\ pc = "bottom"
    /\ IF input.fails = "offsets"
       THEN /\ result' = returns(result, "InvalidArgument")
            /\ pc' = "return"
       ELSE /\ result' = [result EXCEPT !.offsets = TRUE, !.pass = "horizon",
                                        !.nRoutines = input.nRoutines]
            /\ pc' = "spawn"
    /\ LayoutUnchanged

\* core.go:703-729, 769-801  the loop that starts the goroutines of a pass
SpawnWorker ==
    /\ InPrologue /\ pc = "spawn"
    /\ IF result.spawned < result.nRoutines
       THEN /\ result' = [result EXCEPT !.spawned = @ + 1, !.running = @ + 1]
            /\ pc' = pc
       ELSE /\ result' = result
            /\ pc' = "join"
    /\ LayoutUnchanged

\* core.go:709-721, 779-796  a goroutine returns from its C call, which
\* used the three surfaces, and posts its error
WorkerPost ==
    /\ InPrologue /\ pc \in {"spawn", "join"}
    /\ result.running > 0
    /\ result' = [result EXCEPT
                    !.running = @ - 1,
                    !.posted = Append(@, IF input.fails = result.pass
                                            /\ Len(result.posted) = 0
                                         THEN "InternalError" ELSE "nil")]
    /\ UNCHANGED pc
    /\ LayoutUnchanged

\* core.go:732-738, 804-810  the orchestrator receives one result
ReceiveWorker ==
    /\ InPrologue /\ pc = "join"
    /\ result.received < result.nRoutines
    /\ result.received < Len(result.posted)
    /\ result' = [result EXCEPT
                    !.received = @ + 1,
                    !.computeErrors =
                        IF result.posted[result.received + 1] # "nil"
                        THEN Append(@, result.posted[result.received + 1])
                        ELSE @]
    /\ UNCHANGED pc
    /\ LayoutUnchanged

\* mutant: the orchestrator goes on after the first result
allReceived_first(r) == r.received >= 1

\* core.go:732, 804  for i := 0; i < nRoutines; i++ { err := <-errs ... }
allReceived(r) == r.received = r.nRoutines

\* core.go:740-743, 812-821  every result was received: the pass returns
\* its first error, or the next pass starts, or the maps are returned
JoinPass ==
    /\ InPrologue /\ pc = "join"
    /\ allReceived(result)
    /\ IF result.computeErrors # <<>>
       THEN /\ result' = returns(result, result.computeErrors[1])
            /\ pc' = "return"
       ELSE IF result.pass = "horizon"
       THEN /\ result' = [result EXCEPT !.pass = "attribute", !.spawned = 0,
                                        !.posted = <<>>, !.received = 0]
            /\ pc' = "spawn"
       ELSE /\ result' = returns(result, "nil")
            /\ pc' = "return"
    /\ LayoutUnchanged

\* core.go:289-299  the deferred Close calls, the last registered first;
\* capi.cpp:111-122 regular_surface_free deletes the surface
CloseSurface ==
    /\ InPrologue /\ pc = "return"
    /\ IF result.deferred # <<>>
       THEN /\ result' = [result EXCEPT
                            !.deferred = Tail(@),
                            !.surfaces[Head(result.deferred)] = "freed",
                            !.frees[Head(result.deferred)] = @ + 1]
            /\ pc' = pc
       ELSE /\ result' = result
            /\ pc' = "done"
    /\ LayoutUnchanged

NextPrologue ==
    \/ CheckAttributeTypes
    \/ CheckAboveBelow
    \/ NewSurface("primary", "window", "primary")
    \/ NewSurface("top", "primary", "top")
    \/ NewSurface("bottom", "top", "bottom")
    \/ HorizonBufferOffsets
    \/ SpawnWorker
    \/ WorkerPost
    \/ ReceiveWorker
    \/ JoinPass
    \/ CloseSurface

SpecPrologue == InitPrologue /\ [][NextPrologue]_vars

\* nothing of the engine was touched: no surface data, no surface, no
\* free, no offsets, no worker
NothingStarted ==
    /\ result.cdata = 0
    /\ \A s \in DOMAIN result.surfaces :
          result.surfaces[s] = "none" /\ result.frees[s] = 0
    /\ result.nullFrees = 0
    /\ ~result.offsets
    /\ result.pass = "none" /\ result.spawned = 0

AllSupported ==
    \A i \in DOMAIN input.attributes :
        ToLower(input.attributes[i]) \in SupportedAttributes

\* C21 as stated: a request with above <= 0 or below <= 0 is rejected
C21_NonPositiveRejected ==
    (InPrologue /\ pc = "done" /\ AllSupported
        /\ (input.above <= 0 \/ input.below <= 0)) =>
        result.err = "InvalidArgument" /\ NothingStarted

\* C21: a request of supported attributes with above < 0 or below < 0 is
\* rejected as InvalidArgument before any surface is made, any offset
\* computed or any worker started; above = 0 and below = 0 pass this check.
C21_NegativeRejected ==
    (InPrologue /\ AllSupported) =>
        /\ (pc \notin {"start", "attributes"}
              /\ (input.above < 0 \/ input.below < 0)) =>
              /\ pc \in {"return", "done"}
              /\ result.err = "InvalidArgument"
              /\ NothingStarted
        /\ (pc = "done" /\ input.above >= 0 /\ input.below >= 0
              /\ input.fails = "none") =>
              result.err = "nil"

\* above is zero, below is positive, and the maps were returned
C21_Witness ==
    /\ InPrologue /\ pc = "done"
    /\ input.above = 0 /\ input.below = 1
    /\ input.fails = "none"
    /\ result.err = "nil"
    /\ result.frees["primary"] = 1


\* C22: GetAttributeType accepts exactly the 14 supported names, whatever
\* their case, and answers InvalidArgument for every other name: the empty
\* name, an unknown name, and minat, maxat, maxabsat of the C enum.  A
\* request with such a name returns InvalidArgument whatever above and
\* below are, with nothing of the engine touched; what reaches the workers
\* are supported kernels only.
C22_UnsupportedRejected ==
    InPrologue =>
        /\ \A name \in RequestNames :
              /\ GetAttributeType(name).err \in {"nil", "InvalidArgument"}
              /\ GetAttributeType(name).err = "nil"
                    <=> \E a \in SupportedAttributes : ToLower(name) = a
        /\ Cardinality(SupportedAttributes) = 14
        /\ (~AllSupported /\ pc # "start") =>
              /\ pc \in {"return", "done"}
              /\ result.err = "InvalidArgument"
              /\ NothingStarted
        /\ result.spawned > 0 =>
              \A i \in DOMAIN result.targetAttributes :
                  result.targetAttributes[i] \in SupportedAttributes

\* a request for a kernel of the C enum with a negative above was answered
C22_Witness ==
    /\ InPrologue /\ pc = "done"
    /\ input.attributes = <<"min", "MaxAt">>
    /\ input.above < 0
    /\ result.err = "InvalidArgument"


\* the surface was created by regular_surface_new
created(s) == result.surfaces[s] # "none"

\* C27: on every return path of GetAttributes a surface that was created
\* is freed exactly once and one that was not is never freed; when
\* regular_surface_new fails the free inside toCRegularSurface is the only
\* one, of the null pointer, and no Close is registered for it; no surface
\* is freed while a worker that was started has not been received.
C27_SurfacesFreedOnce ==
    InPrologue =>
        /\ \A s \in DOMAIN result.surfaces :
              /\ result.frees[s] <= 1
              /\ result.frees[s] = 1 <=> result.surfaces[s] = "freed"
              /\ result.surfaces[s] = "live" =>
                    Cardinality({i \in DOMAIN result.deferred :
                                    result.deferred[i] = s}) = 1
              /\ result.surfaces[s] # "live" =>
                    \A i \in DOMAIN result.deferred : result.deferred[i] # s
              /\ pc = "done" => result.surfaces[s] # "live"
              /\ result.surfaces[s] = "freed" =>
                    /\ result.running = 0
                    /\ result.received = result.spawned
                    /\ pc \in {"return", "done"}
        /\ result.nullFrees <= 1
        /\ result.nullFrees = 1 =>
              /\ input.fails \in {"primary", "top", "bottom"}
              /\ ~created(input.fails)
              /\ result.frees[input.fails] = 0
              /\ result.err = "InternalError"

\* the creation of the bottom surface failed: primary and top were freed
\* once, bottom never
C27_Witness ==
    /\ InPrologue /\ pc = "done"
    /\ input.fails = "bottom"
    /\ result.frees = [s \in {"primary", "top", "bottom"} |->
                          IF s = "bottom" THEN 0 ELSE 1]
    /\ result.nullFrees = 1

(***************************************************************************)
(* The three surfaces of GetAttributes: core.go:301-326, 589-619.          *)
(***************************************************************************)
\* depths of a surface: missing, far from the fill value, and within the
\* largest shift of the fill value on either side
ShiftDepths ==
    {FillValue, PopValue}
        \cup {FillValue + d : d \in 1 .. MaxShift}
        \cup {FillValue - d : d \in 1 .. MaxShift}

InitShift ==
    /\ entry = "toCdata"
    /\ \E nr \in 1 .. MaxFillCells, nc \in 1 .. MaxFillCells :
          /\ nr * nc <= MaxFillCells
          /\ nrows = nr /\ ncols = nc
          /\ Values \in [0 .. nr * nc - 1 -> ShiftDepths]
          /\ inRange = [k \in 0 .. nr * nc - 1 |-> TRUE]
    /\ above \in 0 .. MaxShift
    /\ below \in 0 .. MaxShift
    /\ nAttributes = 1
    /\ chunks = <<>>
    /\ Secondary = <<>>
    /\ input = <<>>
    /\ result = <<>>
    /\ EngineIdle
    /\ CacheIdle

\* core.go:589, 600, 611  the three calls of toCdata
ToCdataRun ==
    /\ entry = "toCdata"
    /\ pc = "start"
    /\ result' = [primary |-> cPrimarySurface, top |-> cTopSurface,
                  bottom |-> cBottomSurface]
    /\ pc' = "done"
    /\ LayoutUnchanged

SpecShift == InitShift /\ [][ToCdataRun]_vars

\* C28: in each of the three surfaces a cell holds the fill value if and
\* only if the cell of the input surface does, so the three surfaces have
\* the same fill cells.
C28_FillIffFill ==
    (entry = "toCdata" /\ pc = "done") =>
        \A k \in Cells :
            /\ result.primary[k] = FillValue <=> Values[k] = FillValue
            /\ result.top[k] = FillValue <=> Values[k] = FillValue
            /\ result.bottom[k] = FillValue <=> Values[k] = FillValue

\* what does hold: a fill cell is the fill value in all three surfaces,
\* the primary surface is the input, and a populated cell is the fill value
\* in the top or bottom surface exactly when its depth minus above, or
\* plus below, is the fill value
C28_FillPreserved ==
    (entry = "toCdata" /\ pc = "done") =>
        \A k \in Cells :
            /\ result.primary[k] = Values[k]
            /\ Values[k] = FillValue =>
                  result.top[k] = FillValue /\ result.bottom[k] = FillValue
            /\ Values[k] # FillValue =>
                  /\ result.top[k] = Values[k] - above
                  /\ result.bottom[k] = Values[k] + below
                  /\ result.top[k] = FillValue <=> Values[k] = FillValue + above
                  /\ result.bottom[k] = FillValue <=> Values[k] = FillValue - below

\* a populated cell whose depth is above samples after the fill value: it
\* is populated in the primary surface and missing in the top surface
C28_Witness ==
    /\ entry = "toCdata" /\ pc = "done"
    /\ above > 0
    /\ \E k \in Cells :
          /\ Values[k] # FillValue
          /\ result.primary[k] # FillValue
          /\ result.top[k] = FillValue

(***************************************************************************)
(* The median of a window: core_test.go:1396-1474, 1571-1621.              *)
(* Samples are counted in halves; as in the cube samples10 every sample is *)
(* an odd number of halves (-2.5, -1.5, -0.5, ...).                        *)
(***************************************************************************)
WindowSamples == {-5, -3, -1, 1, 3}

\* the window with sample v put at its place in ascending order
RECURSIVE insertSorted(_, _)
insertSorted(sorted, v) ==
    IF sorted = <<>> THEN <<v>>
    ELSE IF v <= Head(sorted) THEN <<v>> \o sorted
    ELSE <<Head(sorted)>> \o insertSorted(Tail(sorted), v)

RECURSIVE ascending(_)
ascending(window) ==
    IF window = <<>> THEN <<>>
    ELSE insertSorted(ascending(Tail(window)), Head(window))

\* mutant: the lower of the two middle samples of an even window
median_lower(window) ==
    ascending(window)[(Len(window) - 1) \div 2 + 1]

\* the median attribute as the tests fix it: the middle sample of an odd
\* window (core_test.go:1424), the mean of the two middle samples of an
\* even one (core_test.go:1573-1574)
median(window) ==
    LET sorted == ascending(window)
        n      == Len(window)
    IN  IF n % 2 = 1 THEN sorted[(n - 1) \div 2 + 1]
        ELSE (sorted[n \div 2] + sorted[n \div 2 + 1]) \div 2

InitMedian ==
    /\ entry = "median"
    /\ \E window \in SeqsUpTo(WindowSamples, MaxWindow) \ {<<>>} :
          input = [window |-> window]
    /\ result = <<>>
    /\ nrows = 1 /\ ncols = 1
    /\ Values = [k \in {0} |-> FillValue]
    /\ inRange = [k \in {0} |-> TRUE]
    /\ above = 0 /\ below = 0
    /\ nAttributes = 1
    /\ chunks = <<>>
    /\ Secondary = <<>>
    /\ EngineIdle
    /\ CacheIdle

MedianRun ==
    /\ entry = "median"
    /\ pc = "start"
    /\ result' = [median |-> median(input.window)]
    /\ pc' = "done"
    /\ LayoutUnchanged

SpecMedian == InitMedian /\ [][MedianRun]_vars

\* C23 as stated: the median is the sample at index (N-1)/2 of the window
\* in ascending order, one of the window's own samples
C23_LowerMedian ==
    (entry = "median" /\ pc = "done") =>
        /\ result.median
              = ascending(input.window)[(Len(input.window) - 1) \div 2 + 1]
        /\ \E i \in DOMAIN input.window : result.median = input.window[i]

\* C23: the median of a window of N samples is the sample at index (N-1)/2
\* of the window in ascending order when N is odd, and the mean of the
\* samples at indices N/2-1 and N/2 when N is even; for even N it is the
\* lower middle sample, and a sample of the window, only when the two
\* middle samples are equal.
C23_Median ==
    (entry = "median" /\ pc = "done") =>
        LET sorted == ascending(input.window)
            n      == Len(input.window)
            lower  == sorted[(n - 1) \div 2 + 1]
            upper  == sorted[n \div 2 + 1]
        IN  /\ \A i \in 1 .. n - 1 : sorted[i] <= sorted[i + 1]
            /\ \A v \in WindowSamples :
                  Cardinality({i \in 1 .. n : sorted[i] = v})
                     = Cardinality({i \in 1 .. n : input.window[i] = v})
            /\ n % 2 = 1 => result.median = lower
            /\ n % 2 = 0 =>
                  /\ 2 * result.median = lower + upper
                  /\ result.median = lower <=> lower = upper
                  /\ (\E i \in 1 .. n : result.median = input.window[i])
                        <=> lower = upper
            /\ input.window = <<-5, -3, -1, 1>> => result.median = -2
            /\ input.window = <<-5, -3, -1, 1, 3>> => result.median = -1

\* the window of the first cell of TestAttributeMedianForEvenSampleValue:
\* -2.5, -1.5, -0.5, 0.5 with the median -1
C23_Witness ==
    /\ entry = "median" /\ pc = "done"
    /\ input.window = <<-5, -3, -1, 1>>
    /\ result.median = -2

(***************************************************************************)
(* Attributes between two surfaces: capi.cpp:393-418 and                    *)
(* core_test.go:1476-1569.  Surfaces hold sample indices of one trace; an    *)
(* attribute value is the fraction <<numerator, denominator>>, for rms and *)
(* sd the fraction under the root.                                         *)
(***************************************************************************)
TraceValues == {-3, 1}

ReductionAttributes == SupportedAttributes \ {"samplevalue"}

fillOut == <<FillValue, 1>>

\* the samples of the trace from top to bottom, both included
windowOf(samples, top, bottom) ==
    [i \in 1 .. bottom - top + 1 |-> samples[top + i - 1]]

RECURSIVE sumSeq(_)
sumSeq(w) == IF w = <<>> THEN 0 ELSE Head(w) + sumSeq(Tail(w))

RECURSIVE maxSeq(_)
maxSeq(w) == IF Len(w) = 1 THEN w[1] ELSE max(Head(w), maxSeq(Tail(w)))

sumOver(w, f(_)) == sumSeq([i \in DOMAIN w |-> f(w[i])])

maxOver(w, f(_)) == maxSeq([i \in DOMAIN w |-> f(w[i])])

absolute(x) == IF x < 0 THEN -x ELSE x

\* the kernels of the attributes over one window
kernel(name, w) ==
    LET n      == Len(w)
        id(x)  == x
        neg(x) == -x
        sq(x)  == x * x
        pos(x) == IF x > 0 THEN x ELSE 0
        ngt(x) == IF x < 0 THEN x ELSE 0
        isp(x) == IF x > 0 THEN 1 ELSE 0
        isn(x) == IF x < 0 THEN 1 ELSE 0
        total  == sumOver(w, id)
        frac(num, den) == IF den = 0 THEN <<0, 1>> ELSE <<num, den>>
    IN  CASE name = "min"     -> <<-maxOver(w, neg), 1>>
          [] name = "max"     -> <<maxOver(w, id), 1>>
          [] name = "maxabs"  -> <<maxOver(w, absolute), 1>>
          [] name = "mean"    -> <<total, n>>
          [] name = "meanabs" -> <<sumOver(w, absolute), n>>
          [] name = "meanpos" -> frac(sumOver(w, pos), sumOver(w, isp))
          [] name = "meanneg" -> frac(sumOver(w, ngt), sumOver(w, isn))
          [] name = "median"  -> <<median(w), 1>>
          [] name = "rms"     -> <<sumOver(w, sq), n>>
          [] name = "var"     -> <<n * sumOver(w, sq) - total * total, n * n>>
          [] name = "sd"      -> <<n * sumOver(w, sq) - total * total, n * n>>
          [] name = "sumpos"  -> <<sumOver(w, pos), 1>>
          [] name = "sumneg"  -> <<sumOver(w, ngt), 1>>

\* the attribute maps of a request between two surfaces: the window of a
\* cell runs from the aligned top to the aligned bottom, samplevalue is the
\* sample at the primary surface
attributesBetween(samples, primary, secondary, inr) ==
    LET top    == alignedTop(primary, secondary)
        bottom == alignedBottom(primary, secondary)
    IN  [a \in SupportedAttributes |->
            [k \in DOMAIN primary |->
                IF cellSamples(primary, top, bottom, inr, k) = 0 THEN fillOut
                ELSE IF a = "samplevalue" THEN <<samples[primary[k]], 1>>
                ELSE kernel(a, windowOf(samples, top[k], bottom[k]))]]

SurfaceDepths == {FillValue} \cup (0 .. MaxTrace - 1)

InitBetween ==
    /\ entry = "GetAttributesBetweenSurfaces:attributes"
    /\ nrows = 1 /\ ncols = 2
    /\ Values \in [0 .. 1 -> SurfaceDepths]
    /\ Secondary \in [0 .. 1 -> SurfaceDepths]
    /\ inRange \in [0 .. 1 -> BOOLEAN]
    /\ \E samples \in [0 .. MaxTrace - 1 -> TraceValues] :
          input = [trace |-> samples]
    /\ result = <<>>
    /\ above = 0 /\ below = 0
    /\ nAttributes = Cardinality(SupportedAttributes)
    /\ chunks = <<>>
    /\ EngineIdle
    /\ CacheIdle

\* core_test.go:1517-1521  the request with the surfaces as given
BetweenSurfacesRun ==
    /\ entry = "GetAttributesBetweenSurfaces:attributes"
    /\ pc = "start"
    /\ result' = [direct |->
                    attributesBetween(input.trace, Values, Secondary, inRange)]
    /\ pc' = "swap"
    /\ LayoutUnchanged

\* core_test.go:1522-1526  the request with primary and secondary exchanged
BetweenSurfacesSwappedRun ==
    /\ entry = "GetAttributesBetweenSurfaces:attributes"
    /\ pc = "swap"
    /\ result' = [direct  |-> result.direct,
                  swapped |->
                    attributesBetween(input.trace, Secondary, Values, inRange)]
    /\ pc' = "done"
    /\ LayoutUnchanged

NextBetween == BetweenSurfacesRun \/ BetweenSurfacesSwappedRun

SpecBetween == InitBetween /\ [][NextBetween]_vars

\* the cell has a value in both surfaces and lies inside the cube
bothPopulated(k) ==
    Values[k] # FillValue /\ Secondary[k] # FillValue /\ inRange[k]

servedFromCache(r) == r.pc = "done" /\ r.resp.source = "cache"

\* C26: a request of any of the three kinds that is answered from
\* the cache has opened no handle, read neither metadata nor data and made
\* no call of Cache.Set.
C26_HitOpensNothing ==
    \A h \in Handlers :
        servedFromCache(reqs[h]) =>
            /\ reqs[h].handle = "none"
            /\ reqs[h].metadata = Nil
            /\ reqs[h].data = Nil

\* what the handlers do: a slice or fence request that is answered from the cache has opened
\* no handle; an attributes request that is answered from the cache has
\* opened a handle before its Cache.Get and closed it on return; none of
\* them has read metadata or data.
C26_HitOpensNothingButAttributes ==
    \A h \in Handlers :
        servedFromCache(reqs[h]) =>
            /\ reqs[h].kind \in {"slice", "fence"} => reqs[h].handle = "none"
            /\ reqs[h].kind = "attributes" => reqs[h].handle = "closed"
            /\ reqs[h].metadata = Nil
            /\ reqs[h].data = Nil

\* an attributes request of an authorised connection found its entry in the
\* cache after it had opened a handle
C26_Witness ==
    \E h \in Handlers :
        /\ servedFromCache(reqs[h])
        /\ reqs[h].kind = "attributes"
        /\ reqs[h].hit /\ IsAuthorizedToRead(reqs[h].conn)
        /\ reqs[h].handle = "closed"

(***************************************************************************)
(* The vertical window of an attributes request: capi.cpp:654-694.         *)
(***************************************************************************)
\* the values of above, below and stepsize around the two bounds
WindowValues ==
    {lowerBound - 1, lowerBound, lowerBound + 1,
     upperBound - 1, upperBound, upperBound + 1}

InitWindow ==
    /\ entry = "validateVerticalWindow"
    /\ \E abv \in WindowValues, blw \in WindowValues, stepSize \in WindowValues :
          input = [above |-> abv, below |-> blw, stepSize |-> stepSize]
    /\ result = <<>>
    /\ nrows = 1 /\ ncols = 1
    /\ Values = [k \in {0} |-> FillValue]
    /\ inRange = [k \in {0} |-> TRUE]
    /\ above = 0 /\ below = 0
    /\ nAttributes = 1
    /\ chunks = <<>>
    /\ Secondary = <<>>
    /\ EngineIdle
    /\ CacheIdle

\* capi.cpp:690-691
ValidateVerticalWindowRun ==
    /\ entry = "validateVerticalWindow"
    /\ pc = "start"
    /\ result' = [err |-> validateVerticalWindow(
                             input.above, input.below, input.stepSize),
                  aborted |-> abortOnError(validateVerticalWindow(
                             input.above, input.below, input.stepSize))]
    /\ pc' = "done"
    /\ LayoutUnchanged

SpecWindow == InitWindow /\ [][ValidateVerticalWindowRun]_vars

\* the interval [lowerBound, upperBound] the messages name
withinNamedInterval(x) == lowerBound <= x /\ x <= upperBound

\* C29: validateVerticalWindow returns an InvalidArgument error exactly
\* when above or below lies outside [0, 250], the interval its message
\* names, or stepsize is negative; above = 250, below = 250 and
\* stepsize = 0 are accepted.
C29_ClosedInterval ==
    (entry = "validateVerticalWindow" /\ pc = "done") =>
        /\ result.err # NoError <=>
              \/ ~withinNamedInterval(input.above)
              \/ ~withinNamedInterval(input.below)
              \/ input.stepSize < 0
        /\ result.err # NoError => result.err[1] = "InvalidArgument"

\* what the code does: the upper bound itself is rejected
C29_HalfOpenInterval ==
    (entry = "validateVerticalWindow" /\ pc = "done") =>
        /\ result.err # NoError <=>
              \/ input.above < 0 \/ input.above >= 250
              \/ input.below < 0 \/ input.below >= 250
              \/ input.stepSize < 0
        /\ result.err # NoError =>
              /\ result.err[1] = "InvalidArgument"
              /\ result.aborted
        /\ input.stepSize = 0 /\ input.above = 0 /\ input.below = 249 =>
              result.err = NoError

\* above = 250 with below and stepsize in range was rejected as 'above' out
\* of range
C29_Witness ==
    /\ entry = "validateVerticalWindow" /\ pc = "done"
    /\ input.above = upperBound
    /\ withinNamedInterval(input.below) /\ input.below < upperBound
    /\ input.stepSize = 0
    /\ result.err = <<"InvalidArgument", "above">>
    /\ result.aborted

(***************************************************************************)
(* The answers of the cache and the answers of the engine:                  *)
(* capi.cpp:584-609, 617-651, 696-734.                                      *)
(***************************************************************************)
\* the normative fields of a request
fields(r) == <<r.kind, r.id, r.window>>

\* C30: an answer from the cache is given to an authorised connection and
\* is the metadata and the data the engine computes for the same request;
\* an answer that was computed is that pair as well; every entry of the
\* cache lies under the key of the request whose complete result it is;
\* two requests have the same key exactly when their kind, cube and
\* parameters are the same, whatever their credentials.
C30_CacheTransparent ==
    /\ \A h \in Handlers :
          LET r == reqs[h]
          IN  /\ servedFromCache(r) =>
                    /\ IsAuthorizedToRead(r.conn)
                    /\ r.resp.status = "ok"
                    /\ r.resp.metadata = Metadata(r.kind, r.id, r.window)
                    /\ r.resp.data = Data(r.kind, r.id, r.window)
              /\ (r.pc = "done" /\ r.resp.source = "fresh") =>
                    /\ r.resp.metadata = Metadata(r.kind, r.id, r.window)
                    /\ r.resp.data = Data(r.kind, r.id, r.window)
    /\ \A i \in DOMAIN cache :
          /\ Complete(cache[i])
          /\ cache[i].key = Hash(cache[i].key[2], cache[i].key[3],
                                 cache[i].key[4])
          /\ \A j \in DOMAIN cache : cache[j].key = cache[i].key => j = i
    /\ \A h1, h2 \in Handlers :
          (reqs[h1].key # Nil /\ reqs[h2].key # Nil) =>
              (reqs[h1].key = reqs[h2].key
                  <=> fields(reqs[h1]) = fields(reqs[h2]))

\* an authorised request was answered from the cache with the entry that a
\* request with other credentials, not authorised to read, had computed
C30_Witness ==
    \E h1, h2 \in Handlers :
        /\ servedFromCache(reqs[h1])
        /\ IsAuthorizedToRead(reqs[h1].conn)
        /\ reqs[h2].pc = "done" /\ reqs[h2].resp.source = "fresh"
        /\ ~IsAuthorizedToRead(reqs[h2].conn)
        /\ reqs[h2].key = reqs[h1].key
        /\ reqs[h1].resp.data = reqs[h2].resp.data
        /\ reqs[h1].resp.metadata = reqs[h2].resp.metadata

====
